---- MODULE Spec2Model ----
(***************************************************************************)
(* MailCat: the email ingestion and signal-extraction pipeline.            *)
(*                                                                         *)
(* A string is a sequence of UTF-16 code units (naturals), as JavaScript   *)
(* strings are: "code" is <<99, 111, 100, 101>>.  Positions are 0-based as *)
(* in JavaScript (lastIndex, indexOf, substring); the code unit at         *)
(* position p of s is s[p + 1].                                            *)
(***************************************************************************)
EXTENDS Integers, Sequences, FiniteSets, Bags, TLC

VARIABLES
    codeLastIndex,   \* lastIndex of each RegExp object of codePatterns (1..10)
    linkLastIndex,   \* lastIndex of each RegExp object of linkPatterns (1..5)
    resp,            \* the last answer of the HTTP API, or NoResp
    inbound,         \* what the email handler received last, or NoMessage
    now,             \* Date.now(), in ms since the worker's first request
    backend,         \* env.STORAGE_BACKEND: "d1" or "kv"
    mailboxes,       \* the mailboxes of the store, by name
    tokens,          \* KV: the keys token:{hash}, each holding a mailbox name
    emails,          \* the emails of the store, by id
    lists,           \* KV: the keys emails:{name}, each holding a list of ids
    rate,            \* KV: the key ratelimit:register:{ip}, or NoRate
    staging,         \* env.STAGING_EMAIL_DOMAIN and env.STAGING_WORKER are set
    procs,           \* the requests being served, each at an await
    request,         \* what handleApi took last (Taken), or NoRequest
    history          \* what the worker has answered and received so far

\* The state of the worker that serves one mailbox holding one email.
mailVars == <<codeLastIndex, linkLastIndex, resp, inbound, now, backend>>

\* The state of the service: mailboxes, their emails, requests in flight.
serviceVars ==
    <<mailboxes, tokens, emails, lists, rate, staging, procs, request,
      history>>

vars == <<mailVars, serviceVars>>

-----------------------------------------------------------------------------
(* JavaScript values that are not strings.                                 *)

\* A value that may be null or undefined is null (Null), undefined (Undefined)
\* or Val(v); a string v is never equal to either.
Null == [isNull |-> TRUE]
Undefined == [isUndefined |-> TRUE]
Val(v) == [val |-> v]

\* The result of RegExp.prototype.exec: null, or the match with its index,
\* its end (the lastIndex exec leaves in a global RegExp) and capture group 1.
NoMatch == [matched |-> FALSE]
Match(i, e, c) == [matched |-> TRUE, index |-> i, end |-> e, cap |-> c]

NoEmail == [none |-> TRUE]
NoResp == [none |-> TRUE]
NoMessage == [none |-> TRUE]

\* error('not_found', 'Email not found', 404)
NotFound == [status |-> 404]

-----------------------------------------------------------------------------
(* Code units and character classes.                                       *)

At(s, p) == s[p + 1]

Substring(s, a, b) == SubSeq(s, a + 1, b)

\* The code units of a string.
CodeUnits == 0..65535

\* \d
DigitChars == 48..57

IsDigit(c) == c \in DigitChars

\* \s of a RegExp, and the characters String.prototype.trim removes:
\* WhiteSpace and LineTerminator of ECMAScript.
WhiteSpaceChars ==
    {9, 10, 11, 12, 13, 32, 160, 5760, 8232, 8233, 8239, 8287, 12288, 65279}
        \cup (8192..8202)

IsSpace(c) == c \in WhiteSpaceChars

\* Canonicalize of a RegExp with the i flag and without the u flag, on the
\* code units the patterns' literals can equal: ASCII letters fold together,
\* and no code unit above 127 folds onto an ASCII one.
Fold(c) == IF c \in 65..90 THEN c + 32 ELSE c

\* The literal lit occurs in s at position p (ci: under the i flag).
LitAt(s, p, lit, ci) ==
    /\ p + Len(lit) <= Len(s)
    /\ \A k \in 1..Len(lit) :
          IF ci THEN Fold(s[p + k]) = Fold(lit[k]) ELSE s[p + k] = lit[k]

\* The least element of a non-empty set of integers.
Min(S) == CHOOSE x \in S : \A y \in S : x <= y

\* The greatest element of a non-empty set of integers.
Max(S) == CHOOSE x \in S : \A y \in S : x >= y

\* The end of the longest run of code units of the character class class
\* that starts at p: what a greedy [class]* consumes.
RunEnd(s, p, class) ==
    CHOOSE q \in p..Len(s) :
        /\ q = Len(s) \/ s[q + 1] \notin class
        /\ \A r \in p..(q - 1) : s[r + 1] \in class

\* The start of the longest run of code units of the class that ends at p:
\* what a [class]*$ anchored at p covers.
RunStart(s, p, class) ==
    CHOOSE q \in 0..p :
        /\ q = 0 \/ s[q] \notin class
        /\ \A r \in (q + 1)..p : s[r] \in class

\* The first literal of the alternation alts (a sequence of literals, in the
\* order written) that occurs at p, as the position where it ends; -1 if
\* none occurs.  No two literals of one alternation of these patterns occur
\* at the same position, so backtracking into an alternation finds nothing.
AltEnd(s, p, alts, ci) ==
    LET hits == {k \in 1..Len(alts) : LitAt(s, p, alts[k], ci)}
    IN  IF hits = {} THEN -1
        ELSE p + Len(alts[Min(hits)])

\* (\d{4,8}) at p with nothing after it in the pattern: greedy, at least 4
\* and at most 8 digits.
DigitsTail(s, start, p) ==
    LET run == RunEnd(s, p, DigitChars) - p
        n == IF run > 8 THEN 8 ELSE run
    IN  IF n < 4 THEN NoMatch
        ELSE Match(start, p + n, Substring(s, p, p + n))

\* (\d{4,8}) at p followed by the rest of the pattern, rest[q] being the end
\* of a match of the rest at q, or -1: greedy, so the longest of 8 down to 4
\* digits after which the rest matches.
DigitsHead(s, p, rest) ==
    LET run == RunEnd(s, p, DigitChars) - p
        ns == {n \in 4..8 : n <= run /\ rest[p + n] >= 0}
    IN  IF ns = {} THEN NoMatch
        ELSE Match(p, rest[p + Max(ns)], Substring(s, p, p + Max(ns)))

-----------------------------------------------------------------------------
(* codePatterns: the ten patterns, each as its match starting at p.        *)

L_code == <<99, 111, 100, 101>>   \* "code"
L_otp == <<111, 116, 112>>   \* "otp"
L_pin == <<112, 105, 110>>   \* "pin"
L_passcode == <<112, 97, 115, 115, 99, 111, 100, 101>>   \* "passcode"
L_password == <<112, 97, 115, 115, 119, 111, 114, 100>>   \* "password"
L_verification == <<118, 101, 114, 105, 102, 105, 99, 97, 116, 105, 111, 110>>   \* "verification"
L_enter == <<101, 110, 116, 101, 114>>   \* "enter"
L_use == <<117, 115, 101>>   \* "use"
L_your == <<121, 111, 117, 114>>   \* "your"
L_is_your == <<105, 115, 32, 121, 111, 117, 114>>   \* "is your"
L_is_the == <<105, 115, 32, 116, 104, 101>>   \* "is the"
L_one_time == <<111, 110, 101, 45, 116, 105, 109, 101>>   \* "one-time"
\* U+9A8C U+8BC1 U+7801, U+6821 U+9A8C U+7801, U+52A8 U+6001 U+7801,
\* U+5B89 U+5168 U+7801: the four Chinese words for a verification code
L_yanzhengma == <<39564, 35777, 30721>>
L_jiaoyanma == <<26657, 39564, 30721>>
L_dongtaima == <<21160, 24577, 30721>>
L_anquanma == <<23433, 20840, 30721>>

\* [:\s]
ColonOrSpaceChars == {58} \cup WhiteSpaceChars

\* [<fullwidth colon>:\s], the fullwidth colon being U+FF1A
AnyColonOrSpaceChars == {65306, 58} \cup WhiteSpaceChars

\* /(?:code|otp|pin|passcode|password|verification)[:\s]+(\d{4,8})/gi
CodePattern1(s, p) ==
    LET k == AltEnd(s, p, <<L_code, L_otp, L_pin, L_passcode, L_password,
                            L_verification>>, TRUE)
        d == RunEnd(s, k, ColonOrSpaceChars)
    IN  IF k < 0 \/ d = k THEN NoMatch ELSE DigitsTail(s, p, d)

\* /(?:enter|use|your)\s+(?:code|otp|pin)[:\s]+(\d{4,8})/gi
CodePattern2(s, p) ==
    LET v == AltEnd(s, p, <<L_enter, L_use, L_your>>, TRUE)
        w == RunEnd(s, v, WhiteSpaceChars)
        k == AltEnd(s, w, <<L_code, L_otp, L_pin>>, TRUE)
        d == RunEnd(s, k, ColonOrSpaceChars)
    IN  IF v < 0 \/ w = v THEN NoMatch
        ELSE IF k < 0 \/ d = k THEN NoMatch
        ELSE DigitsTail(s, p, d)

\* \s+(?:is your|is the)?\s*(?:code|otp|pin|verification) at q: its end or -1.
\* The optional group is tried first; without it the keyword has to stand
\* right after the white space.
CodePattern3Rest(s, q) ==
    LET kws == <<L_code, L_otp, L_pin, L_verification>>
        w == RunEnd(s, q, WhiteSpaceChars)
        g == AltEnd(s, w, <<L_is_your, L_is_the>>, TRUE)
        viaGroup == IF g < 0 THEN -1
                    ELSE AltEnd(s, RunEnd(s, g, WhiteSpaceChars), kws, TRUE)
    IN  IF w = q THEN -1
        ELSE IF viaGroup >= 0 THEN viaGroup
        ELSE AltEnd(s, w, kws, TRUE)

\* /(\d{4,8})\s+(?:is your|is the)?\s*(?:code|otp|pin|verification)/gi
CodePattern3(s, p) ==
    DigitsHead(s, p, [q \in 0..Len(s) |-> CodePattern3Rest(s, q)])

\* /verification[:\s]*(\d{4,8})/gi
CodePattern4(s, p) ==
    IF ~LitAt(s, p, L_verification, TRUE) THEN NoMatch
    ELSE DigitsTail(s, p, RunEnd(s, p + Len(L_verification), ColonOrSpaceChars))

\* /one-time\s*(?:password|code)[:\s]*(\d{4,8})/gi
CodePattern5(s, p) ==
    LET w == RunEnd(s, p + Len(L_one_time), WhiteSpaceChars)
        k == AltEnd(s, w, <<L_password, L_code>>, TRUE)
    IN  IF ~LitAt(s, p, L_one_time, TRUE) THEN NoMatch
        ELSE IF k < 0 THEN NoMatch
        ELSE DigitsTail(s, p, RunEnd(s, k, ColonOrSpaceChars))

\* /<word>[<fullwidth colon>:\s]*(\d{4,8})/g for a Chinese word
CodePatternLabel(s, p, word) ==
    IF ~LitAt(s, p, word, FALSE) THEN NoMatch
    ELSE DigitsTail(s, p, RunEnd(s, p + Len(word), AnyColonOrSpaceChars))

\* [<shi><wei>]?[<nin><ni>]<de>?<yanzhengma> at q: its end or -1
\* (U+662F U+4E3A, U+60A8 U+4F60, U+7684).
CodePattern10Rest(s, q) ==
    LET a == IF q < Len(s) /\ At(s, q) \in {26159, 20026} THEN q + 1 ELSE q
        b == a + 1
        c == IF b < Len(s) /\ At(s, b) = 30340 THEN b + 1 ELSE b
    IN  IF a < Len(s) /\ At(s, a) \in {24744, 20320}
                      /\ LitAt(s, c, L_yanzhengma, FALSE)
        THEN c + Len(L_yanzhengma)
        ELSE -1

\* /(\d{4,8})[<shi><wei>]?[<nin><ni>]<de>?<yanzhengma>/g
CodePattern10(s, p) ==
    DigitsHead(s, p, [q \in 0..Len(s) |-> CodePattern10Rest(s, q)])

NumCodePatterns == 10

\* The match of codePatterns[k] that starts at position p of s, or NoMatch.
CodePatternAt(k, s, p) ==
    CASE k = 1 -> CodePattern1(s, p)
      [] k = 2 -> CodePattern2(s, p)
      [] k = 3 -> CodePattern3(s, p)
      [] k = 4 -> CodePattern4(s, p)
      [] k = 5 -> CodePattern5(s, p)
      [] k = 6 -> CodePatternLabel(s, p, L_yanzhengma)
      [] k = 7 -> CodePatternLabel(s, p, L_jiaoyanma)
      [] k = 8 -> CodePatternLabel(s, p, L_dongtaima)
      [] k = 9 -> CodePatternLabel(s, p, L_anquanma)
      [] k = 10 -> CodePattern10(s, p)

\* codePatterns[k].exec(s) with codePatterns[k].lastIndex = lastIndex: the
\* leftmost match that starts at lastIndex or later.
ExecCode(k, s, lastIndex) ==
    LET Leftmost(starts) ==
            IF starts = {} THEN NoMatch ELSE CodePatternAt(k, s, Min(starts))
    IN  Leftmost({p \in lastIndex..(Len(s) - 1) : CodePatternAt(k, s, p).matched})

-----------------------------------------------------------------------------
(* linkPatterns: the five patterns, each as its match starting at p.       *)

L_http == <<104, 116, 116, 112>>   \* "http"
L_colon_slashes == <<58, 47, 47>>   \* "://"
L_verify == <<118, 101, 114, 105, 102, 121>>   \* "verify"
L_confirm == <<99, 111, 110, 102, 105, 114, 109>>   \* "confirm"
L_activate == <<97, 99, 116, 105, 118, 97, 116, 101>>   \* "activate"
L_validate == <<118, 97, 108, 105, 100, 97, 116, 101>>   \* "validate"
L_auth == <<97, 117, 116, 104>>   \* "auth"
L_reset == <<114, 101, 115, 101, 116>>   \* "reset"
L_recover == <<114, 101, 99, 111, 118, 101, 114>>   \* "recover"
L_magic == <<109, 97, 103, 105, 99>>   \* "magic"
L_login == <<108, 111, 103, 105, 110>>   \* "login"
L_signin == <<115, 105, 103, 110, 105, 110>>   \* "signin"
L_sign_in == <<115, 105, 103, 110, 45, 105, 110>>   \* "sign-in"
L_token == <<116, 111, 107, 101, 110>>   \* "token"
L_key == <<107, 101, 121>>   \* "key"
L_unsubscribe == <<117, 110, 115, 117, 98, 115, 99, 114, 105, 98, 101>>   \* "unsubscribe"
L_opt_out == <<111, 112, 116, 45, 111, 117, 116>>   \* "opt-out"
L_optout == <<111, 112, 116, 111, 117, 116>>   \* "optout"

\* [^\s<>"]
UrlChars == CodeUnits \ (WhiteSpaceChars \cup {60, 62, 34})

\* [a-zA-Z0-9_-]
IsTokenChar(c) == c \in (97..122) \cup (65..90) \cup (48..57) \cup {95, 45}

\* https?:\/\/ at p: the position where it ends, or -1.
SchemeEnd(s, p) ==
    LET h == p + Len(L_http)
        t == IF h < Len(s) /\ Fold(At(s, h)) = 115 THEN h + 1 ELSE h
    IN  IF LitAt(s, p, L_http, TRUE) /\ LitAt(s, t, L_colon_slashes, TRUE)
        THEN t + Len(L_colon_slashes)
        ELSE -1

\* The keywords of linkPatterns[k], k other than 4.
LinkKeywords(k) ==
    CASE k = 1 -> <<L_verify, L_confirm, L_activate, L_validate, L_auth>>
      [] k = 2 -> <<L_reset, L_password, L_recover>>
      [] k = 3 -> <<L_magic, L_login, L_signin, L_sign_in>>
      [] k = 5 -> <<L_unsubscribe, L_opt_out, L_optout>>

\* [?&](?:token|code|key)=[a-zA-Z0-9_-]+ occurs at t.
TokenParamAt(s, t) ==
    LET e == AltEnd(s, t + 1, <<L_token, L_code, L_key>>, TRUE)
    IN  /\ At(s, t) \in {63, 38}
        /\ e >= 0
        /\ e + 1 < Len(s)
        /\ At(s, e) = 61
        /\ IsTokenChar(At(s, e + 1))

\* What has to occur in the URL, after at least one character, for
\* linkPatterns[k] to match: one of the keywords, or the token parameter.
LinkMarkAt(k, s, t) ==
    IF k = 4 THEN TokenParamAt(s, t)
    ELSE AltEnd(s, t, LinkKeywords(k), TRUE) >= 0

\* A variant of LinkPatternAt: the scheme is not required, a match starts at
\* any URL character and runs to the end of the run, the mark in it.
LinkPatternAt_AnyScheme(k, s, p) ==
    LET e == RunEnd(s, p, UrlChars)
    IN  IF \E t \in (p + 1)..(e - 1) : LinkMarkAt(k, s, t)
        THEN Match(p, e, <<>>)
        ELSE NoMatch

\* /https?:\/\/[^\s<>"]+(?:<keywords>)[^\s<>"]*/gi and, for k = 4,
\* /https?:\/\/[^\s<>"]+[?&](?:token|code|key)=[a-zA-Z0-9_-]+[^\s<>"]*/gi:
\* the match runs from the scheme to the end of the run of URL characters,
\* if the mark occurs in that run at least one character after the scheme.
LinkPatternAt(k, s, p) ==
    LET a == SchemeEnd(s, p)
        e == RunEnd(s, a, UrlChars)
    IN  IF a < 0 THEN NoMatch
        ELSE IF \E t \in (a + 1)..(e - 1) : LinkMarkAt(k, s, t)
        THEN Match(p, e, <<>>)
        ELSE NoMatch

NumLinkPatterns == 5

\* linkPatterns[k].exec(s) with linkPatterns[k].lastIndex = lastIndex.
ExecLink(k, s, lastIndex) ==
    LET Leftmost(starts) ==
            IF starts = {} THEN NoMatch ELSE LinkPatternAt(k, s, Min(starts))
    IN  Leftmost({p \in lastIndex..(Len(s) - 1) : LinkPatternAt(k, s, p).matched})

\* [.,;:!?)\]}>]
TrailingPunctChars == {46, 44, 59, 58, 33, 63, 41, 93, 125, 62}

\* url.replace(/[.,;:!?)\]}>]+$/, ''): the URL without its trailing run of
\* punctuation.
CleanUrl(url) ==
    Substring(url, 0, RunStart(url, Len(url), TrailingPunctChars))

\* A variant of SetAdd: an array push, which keeps what is already there.
SetAdd_NoDedupe(set, x) == Append(set, x)

\* Set.prototype.add on a Set kept as the sequence of its elements in
\* insertion order.
SetAdd(set, x) ==
    IF \E i \in 1..Len(set) : set[i] = x THEN set ELSE Append(set, x)

\* The while loop over one pattern: every match from lastIndex on, cleaned and
\* added to links.  The loop ends at the exec that returns null, which leaves
\* lastIndex 0.
RECURSIVE LinkLoop(_, _, _, _)
LinkLoop(k, s, lastIndex, links) ==
    LET Body(m) ==
            IF ~m.matched THEN links
            ELSE LinkLoop(k, s, m.end,
                          SetAdd(links, CleanUrl(Substring(s, m.index, m.end))))
    IN  Body(ExecLink(k, s, lastIndex))

\* The for loop over linkPatterns, from pattern k on.
RECURSIVE LinksFrom(_, _, _, _)
LinksFrom(k, s, lli, links) ==
    IF k > NumLinkPatterns THEN links
    ELSE LinksFrom(k + 1, s, lli, LinkLoop(k, s, lli[k], links))

-----------------------------------------------------------------------------
(* extractData                                                             *)

\* `${text} ${html || ''}`
Content(text, html) ==
    text \o <<32>> \o (IF html \in {Undefined, Null} THEN <<>> ELSE html.val)

\* A variant of FirstCodeHit: the pattern whose match stands first in the
\* text, whatever its place in the list.
FirstCodeHit_ByPosition(s, cli) ==
    LET hits == {k \in 1..NumCodePatterns : ExecCode(k, s, cli[k]).matched}
        at(k) == ExecCode(k, s, cli[k]).index
    IN  IF hits = {} THEN 0
        ELSE Min({k \in hits : \A j \in hits : at(k) <= at(j)})

\* The first pattern, in list order, whose exec matches from its own
\* lastIndex; 0 if none does.
FirstCodeHit(s, cli) ==
    LET First(hits) == IF hits = {} THEN 0 ELSE Min(hits)
    IN  First({k \in 1..NumCodePatterns : ExecCode(k, s, cli[k]).matched})

\* A variant of CodeLoop: where no pattern matches, the first run of 4 to 8
\* digits of the content is returned as the code.
CodeLoop_BareFallback(s, cli) ==
    LET hit == FirstCodeHit(s, cli)
        m == ExecCode(hit, s, cli[hit])
        bare == {p \in 0..(Len(s) - 1) : DigitsTail(s, p, p).matched}
    IN  [code |-> IF hit # 0 THEN Val(m.cap)
                  ELSE IF bare # {} THEN Val(DigitsTail(s, Min(bare), Min(bare)).cap)
                  ELSE Null,
         lastIndex |-> [k \in 1..NumCodePatterns |->
                           IF hit = 0 \/ k < hit THEN 0
                           ELSE IF k = hit THEN m.end
                           ELSE cli[k]]]

\* The for loop over codePatterns on content s, cli being the lastIndex of
\* each pattern when the loop starts: the code it finds, and the lastIndex it
\* leaves in each pattern.  The patterns tried without a match are reset to
\* 0, the pattern that matched keeps the end of its match (the loop breaks
\* before the reset), and the patterns after it are not touched.
CodeLoop(s, cli) ==
    LET Break(hit, m) ==
            [code |-> IF hit = 0 THEN Null ELSE Val(m.cap),
             lastIndex |-> [k \in 1..NumCodePatterns |->
                               IF hit = 0 \/ k < hit THEN 0
                               ELSE IF k = hit THEN m.end
                               ELSE cli[k]]]
        Found(hit) == Break(hit, ExecCode(hit, s, cli[hit]))
    IN  Found(FirstCodeHit(s, cli))

\* A variant of LinkLoops: Array.from(links) whatever the size of the set.
LinkLoops_EmptyList(s, lli) ==
    [links |-> Val(LinksFrom(1, s, lli, <<>>)),
     lastIndex |-> [k \in 1..NumLinkPatterns |-> 0]]

\* The for loop over linkPatterns: links.size > 0 ? Array.from(links) : null,
\* and the lastIndex it leaves in each pattern (each while loop ends with
\* pattern.lastIndex = 0).
LinkLoops(s, lli) ==
    LET Result(links) ==
            [links |-> IF Len(links) > 0 THEN Val(links) ELSE Null,
             lastIndex |-> [k \in 1..NumLinkPatterns |-> 0]]
    IN  Result(LinksFrom(1, s, lli, <<>>))

\* extractData(text, html) with the patterns' lastIndex cli and lli: what it
\* returns (code, links) and the lastIndex it leaves in the patterns.
extractData(text, html, cli, lli) ==
    LET Result(c, l) ==
            [code |-> c.code, links |-> l.links,
             codeLastIndex |-> c.lastIndex, linkLastIndex |-> l.lastIndex]
    IN  Result(CodeLoop(Content(text, html), cli),
               LinkLoops(Content(text, html), lli))

-----------------------------------------------------------------------------
(* String helpers of the MIME parser.                                      *)

\* s.indexOf(lit): the least position where lit occurs, or -1.
IndexOf(s, lit) ==
    LET at == {p \in 0..Len(s) : LitAt(s, p, lit, FALSE)}
    IN  IF at = {} THEN -1 ELSE Min(at)

\* s.substring(a): from position a to the end.
SubstringFrom(s, a) == SubSeq(s, a + 1, Len(s))

\* s.trim()
Trim(s) ==
    Substring(s, RunEnd(s, 0, WhiteSpaceChars),
              RunStart(s, Len(s), WhiteSpaceChars))

\* s.replace(re, ...) for a global re: s is scanned from the left; where the
\* pattern matches at p, ending at endAt[p] > p, the match is replaced by
\* repl[p] and the scan goes on after it.  endAt[p] is -1 where the pattern
\* does not match at p.
ReplaceAll(s, endAt, repl) ==
    LET out[p \in 0..Len(s)] ==
            LET hits == {q \in p..(Len(s) - 1) : endAt[q] > q}
                q0 == Min(hits)
            IN  IF hits = {} THEN Substring(s, p, Len(s))
                ELSE Substring(s, p, q0) \o repl[q0] \o out[endAt[q0]]
    IN  out[0]

\* The positions of s.
Positions(s) == 0..(Len(s) - 1)

\* s.split(sep) for a non-empty string sep.
RECURSIVE Split(_, _)
Split(s, sep) ==
    LET i == IndexOf(s, sep)
    IN  IF i < 0 THEN <<s>>
        ELSE <<Substring(s, 0, i)>> \o Split(SubstringFrom(s, i + Len(sep)), sep)

L_boundary_eq == <<98, 111, 117, 110, 100, 97, 114, 121, 61>>   \* "boundary="
L_content_type == <<99, 111, 110, 116, 101, 110, 116, 45, 116, 121, 112, 101, 58>>   \* "content-type:"
L_text_plain == <<116, 101, 120, 116, 47, 112, 108, 97, 105, 110>>   \* "text/plain"
L_text_html == <<116, 101, 120, 116, 47, 104, 116, 109, 108>>   \* "text/html"
L_cte == <<99, 111, 110, 116, 101, 110, 116, 45, 116, 114, 97, 110, 115, 102, 101, 114, 45, 101, 110, 99, 111, 100, 105, 110, 103, 58>>   \* "content-transfer-encoding:"
L_quoted_printable == <<113, 117, 111, 116, 101, 100, 45, 112, 114, 105, 110, 116, 97, 98, 108, 101>>   \* "quoted-printable"
L_base64 == <<98, 97, 115, 101, 54, 52>>   \* "base64"
L_dashes == <<45, 45>>   \* "--"
CRLFCRLF == <<13, 10, 13, 10>>

\* /<name>\s*<value>/i.test(s), name and value literals.
HeaderTest(s, name, value) ==
    \E p \in 0..(Len(s) - 1) :
        /\ LitAt(s, p, name, TRUE)
        /\ LitAt(s, RunEnd(s, p + Len(name), WhiteSpaceChars), value, TRUE)

\* [^"\r\n]
BoundaryChars == CodeUnits \ {34, 13, 10}

\* /boundary="?([^"\r\n]+)"?/i at p: the end of capture group 1, or -1.  The
\* group starts after the optional quote.
BoundaryEndAt(s, p) ==
    LET q == p + Len(L_boundary_eq)
        b == IF q < Len(s) /\ At(s, q) = 34 THEN q + 1 ELSE q
        e == RunEnd(s, b, BoundaryChars)
    IN  IF LitAt(s, p, L_boundary_eq, TRUE) /\ e > b THEN e ELSE -1

\* raw.match(/boundary="?([^"\r\n]+)"?/i): Val(capture group 1) of the
\* leftmost match, or Null.
BoundaryMatch(s) ==
    LET at == {p \in 0..(Len(s) - 1) : BoundaryEndAt(s, p) >= 0}
        p0 == Min(at)
        q0 == p0 + Len(L_boundary_eq)
        b0 == IF At(s, q0) = 34 THEN q0 + 1 ELSE q0
    IN  IF at = {} THEN Null ELSE Val(Substring(s, b0, BoundaryEndAt(s, p0)))

-----------------------------------------------------------------------------
(* decodeQuotedPrintable, atob and htmlToText                              *)

IsHexDigit(c) == c \in (48..57) \cup (65..70) \cup (97..102)

HexValue(c) ==
    IF c \in 48..57 THEN c - 48 ELSE IF c \in 65..70 THEN c - 55 ELSE c - 87

\* /=\r?\n/ at p: its end or -1
SoftBreakEndAt(s, p) ==
    IF At(s, p) # 61 THEN -1
    ELSE IF p + 1 < Len(s) /\ At(s, p + 1) = 10 THEN p + 2
    ELSE IF p + 2 < Len(s) /\ At(s, p + 1) = 13 /\ At(s, p + 2) = 10 THEN p + 3
    ELSE -1

\* /=([0-9A-Fa-f]{2})/ at p: its end or -1
HexEscapeEndAt(s, p) ==
    IF /\ At(s, p) = 61
       /\ p + 2 < Len(s)
       /\ IsHexDigit(At(s, p + 1))
       /\ IsHexDigit(At(s, p + 2))
    THEN p + 3 ELSE -1

\* A decoder that replaces the =XX before it removes the soft line breaks.
decodeQuotedPrintable_HexFirst(input) ==
    LET SoftBreaks(s) ==
            ReplaceAll(s, [p \in Positions(s) |-> SoftBreakEndAt(s, p)],
                       [p \in Positions(s) |-> <<>>])
        \* String.fromCharCode(parseInt(hex, 16))
        HexEscapes(s) ==
            ReplaceAll(s, [p \in Positions(s) |-> HexEscapeEndAt(s, p)],
                       [p \in Positions(s) |->
                           <<16 * HexValue(At(s, p + 1)) + HexValue(At(s, p + 2))>>])
    IN  SoftBreaks(HexEscapes(input))

decodeQuotedPrintable(input) ==
    LET SoftBreaks(s) ==
            ReplaceAll(s, [p \in Positions(s) |-> SoftBreakEndAt(s, p)],
                       [p \in Positions(s) |-> <<>>])
        \* String.fromCharCode(parseInt(hex, 16))
        HexEscapes(s) ==
            ReplaceAll(s, [p \in Positions(s) |-> HexEscapeEndAt(s, p)],
                       [p \in Positions(s) |->
                           <<16 * HexValue(At(s, p + 1)) + HexValue(At(s, p + 2))>>])
    IN  HexEscapes(SoftBreaks(input))

\* s.replace(/\s/g, '')
StripSpace(s) == SelectSeq(s, LAMBDA c : ~IsSpace(c))

IsBase64Char(c) ==
    c \in (65..90) \cup (97..122) \cup (48..57) \cup {43, 47}

Base64Value(c) ==
    IF c \in 65..90 THEN c - 65
    ELSE IF c \in 97..122 THEN c - 71
    ELSE IF c \in 48..57 THEN c + 4
    ELSE IF c = 43 THEN 62
    ELSE 63

\* The bytes of the base64 digits d, from digit i on: three bytes for four
\* digits, two for a last group of three, one for a last group of two.
RECURSIVE Base64Bytes(_, _)
Base64Bytes(d, i) ==
    LET left == Len(d) - i + 1
        v(k) == Base64Value(d[i + k])
    IN  IF left >= 4 THEN
            <<v(0) * 4 + v(1) \div 16,
              (v(1) % 16) * 16 + v(2) \div 4,
              (v(2) % 4) * 64 + v(3)>> \o Base64Bytes(d, i + 4)
        ELSE IF left = 3 THEN
            <<v(0) * 4 + v(1) \div 16, (v(1) % 16) * 16 + v(2) \div 4>>
        ELSE IF left = 2 THEN <<v(0) * 4 + v(1) \div 16>>
        ELSE <<>>

\* atob(data), the forgiving-base64 decode of the HTML standard: Val(the
\* decoded string), or Null where atob throws InvalidCharacterError.
atob(data) ==
    LET Padding(d0, n0) ==
            IF n0 % 4 # 0 THEN 0
            ELSE IF n0 >= 2 /\ d0[n0] = 61 /\ d0[n0 - 1] = 61 THEN 2
            ELSE IF n0 >= 1 /\ d0[n0] = 61 THEN 1
            ELSE 0
        Unpadded(d0) == SubSeq(d0, 1, Len(d0) - Padding(d0, Len(d0)))
        Decode(d) ==
            IF Len(d) % 4 = 1 \/ \E i \in 1..Len(d) : ~IsBase64Char(d[i])
            THEN Null
            ELSE Val(Base64Bytes(d, 1))
    IN  Decode(Unpadded(SelectSeq(data, LAMBDA c : c \notin {9, 10, 12, 13, 32})))

\* A decoder that gives the empty string where atob throws.
DecodeBase64_Empty(s) ==
    LET OrKeep(r) == IF r = Null THEN <<>> ELSE r.val
    IN  OrKeep(atob(StripSpace(s)))

\* try { X = atob(s.replace(/\s/g, '')) } catch { X = s }
DecodeBase64(s) ==
    LET OrKeep(r) == IF r = Null THEN s ELSE r.val
    IN  OrKeep(atob(StripSpace(s)))

L_style_open == <<60, 115, 116, 121, 108, 101>>   \* "<style"
L_style_close == <<60, 47, 115, 116, 121, 108, 101, 62>>   \* "</style>"
L_script_open == <<60, 115, 99, 114, 105, 112, 116>>   \* "<script"
L_script_close == <<60, 47, 115, 99, 114, 105, 112, 116, 62>>   \* "</script>"
L_br == <<60, 98, 114>>   \* "<br"
L_p_close == <<60, 47, 112, 62>>   \* "</p>"
L_div_close == <<60, 47, 100, 105, 118, 62>>   \* "</div>"
L_nbsp == <<38, 110, 98, 115, 112, 59>>   \* "&nbsp;"
L_amp == <<38, 97, 109, 112, 59>>   \* "&amp;"
L_lt == <<38, 108, 116, 59>>   \* "&lt;"
L_gt == <<38, 103, 116, 59>>   \* "&gt;"
L_quot == <<38, 113, 117, 111, 116, 59>>   \* "&quot;"
L_apos == <<38, 35, 51, 57, 59>>   \* "&#39;"

\* [^>]
NotGtChars == CodeUnits \ {62}

\* /<open[^>]*>[\s\S]*?<close>/i at p, open and close literals: its end, at
\* the first close after the first > after open, or -1.
BlockEndAt(s, p, open, close) ==
    LET g == RunEnd(s, p + Len(open), NotGtChars)
        ends == {q \in (g + 1)..Len(s) : LitAt(s, q, close, TRUE)}
    IN  IF ~LitAt(s, p, open, TRUE) THEN -1
        ELSE IF g >= Len(s) \/ ends = {} THEN -1
        ELSE Min(ends) + Len(close)

\* /<br\s*\/?>/i at p: its end or -1
BrEndAt(s, p) ==
    LET w == RunEnd(s, p + Len(L_br), WhiteSpaceChars)
        t == IF w < Len(s) /\ At(s, w) = 47 THEN w + 1 ELSE w
    IN  IF LitAt(s, p, L_br, TRUE) /\ t < Len(s) /\ At(s, t) = 62
        THEN t + 1 ELSE -1

\* /<[^>]+>/ at p: its end or -1
TagEndAt(s, p) ==
    LET g == RunEnd(s, p + 1, NotGtChars)
    IN  IF At(s, p) = 60 /\ g > p + 1 /\ g < Len(s) THEN g + 1 ELSE -1

\* /\n{3,}/ at p: its end or -1
NewlinesEndAt(s, p) ==
    LET e == RunEnd(s, p, {10})
    IN  IF e - p >= 3 THEN e ELSE -1

\* s.replace(/<lit>/g, repl), and with the i flag when ci.
ReplaceLit(s, lit, ci, repl) ==
    ReplaceAll(s,
               [p \in Positions(s) |-> IF LitAt(s, p, lit, ci) THEN p + Len(lit) ELSE -1],
               [p \in Positions(s) |-> repl])

\* s.replace(/<open[^>]*>[\s\S]*?<close>/gi, '')
RemoveBlocks(s, open, close) ==
    ReplaceAll(s, [p \in Positions(s) |-> BlockEndAt(s, p, open, close)],
               [p \in Positions(s) |-> <<>>])

\* s.replace(/<br\s*\/?>/gi, '\n')
ReplaceBr(s) ==
    ReplaceAll(s, [p \in Positions(s) |-> BrEndAt(s, p)],
               [p \in Positions(s) |-> <<10>>])

\* s.replace(/<[^>]+>/g, '')
RemoveTags(s) ==
    ReplaceAll(s, [p \in Positions(s) |-> TagEndAt(s, p)],
               [p \in Positions(s) |-> <<>>])

\* s.replace(/\n{3,}/g, '\n\n')
CollapseNewlines(s) ==
    ReplaceAll(s, [p \in Positions(s) |-> NewlinesEndAt(s, p)],
               [p \in Positions(s) |-> <<10, 10>>])

htmlToText(html) ==
    LET s1 == RemoveBlocks(html, L_style_open, L_style_close)
        s2 == RemoveBlocks(s1, L_script_open, L_script_close)
        s3 == ReplaceBr(s2)
        s4 == ReplaceLit(s3, L_p_close, TRUE, <<10, 10>>)
        s5 == ReplaceLit(s4, L_div_close, TRUE, <<10>>)
        s6 == RemoveTags(s5)
        s7 == ReplaceLit(s6, L_nbsp, FALSE, <<32>>)
        s8 == ReplaceLit(s7, L_amp, FALSE, <<38>>)
        s9 == ReplaceLit(s8, L_lt, FALSE, <<60>>)
        s10 == ReplaceLit(s9, L_gt, FALSE, <<62>>)
        s11 == ReplaceLit(s10, L_quot, FALSE, <<34>>)
        s12 == ReplaceLit(s11, L_apos, FALSE, <<39>>)
        s13 == CollapseNewlines(s12)
    IN  Trim(s13)

-----------------------------------------------------------------------------
(* parseMimeContent                                                        *)

\* The transfer decoding both paths apply: headers is the text searched for
\* the Content-Transfer-Encoding header, body the text decoded.
DecodeTransfer(headers, body) ==
    IF HeaderTest(headers, L_cte, L_quoted_printable)
    THEN decodeQuotedPrintable(body)
    ELSE IF HeaderTest(headers, L_cte, L_base64) THEN DecodeBase64(body)
    ELSE body

\* The path of a message without a boundary parameter.
ParseSinglePart(raw) ==
    LET isHtml == HeaderTest(raw, L_content_type, L_text_html)
        Body(bodyStart) ==
            IF bodyStart > 0 THEN SubstringFrom(raw, bodyStart + 4) ELSE raw
        Result(decoded) ==
            IF isHtml THEN [text |-> htmlToText(decoded), html |-> Val(decoded)]
            ELSE [text |-> decoded, html |-> Undefined]
    IN  Result(DecodeTransfer(raw, Body(IndexOf(raw, CRLFCRLF))))

\* One pass of the for loop over the parts: acc is [text, html] before the
\* part, the result is [text, html] after it.
ParsePart(part, acc) ==
    LET Decoded(bodyStart) ==
            DecodeTransfer(part, Trim(SubstringFrom(part, bodyStart + 4)))
        Body(trimmed, isTextPart, isHtmlPart, bodyStart) ==
            IF trimmed = <<>> \/ trimmed = L_dashes THEN acc
            ELSE IF ~isTextPart /\ ~isHtmlPart THEN acc
            ELSE IF bodyStart < 0 THEN acc
            ELSE IF isTextPart /\ acc.text = <<>>
            THEN [acc EXCEPT !.text = Decoded(bodyStart)]
            ELSE IF isHtmlPart THEN [acc EXCEPT !.html = Val(Decoded(bodyStart))]
            ELSE acc
    IN  Body(Trim(part),
             HeaderTest(part, L_content_type, L_text_plain),
             HeaderTest(part, L_content_type, L_text_html),
             IndexOf(part, CRLFCRLF))

RECURSIVE ParseParts(_, _, _)
ParseParts(parts, i, acc) ==
    IF i > Len(parts) THEN acc
    ELSE ParseParts(parts, i + 1, ParsePart(parts[i], acc))

\* The path of a message with a boundary parameter.
ParseMultipart(raw, boundary) ==
    LET Result(acc) ==
            IF acc.text = <<>> /\ acc.html # Undefined /\ acc.html.val # <<>>
            THEN [acc EXCEPT !.text = htmlToText(acc.html.val)]
            ELSE acc
    IN  Result(ParseParts(Split(raw, L_dashes \o boundary), 1,
                          [text |-> <<>>, html |-> Undefined]))

parseMimeContent(raw) ==
    LET Parse(boundaryMatch) ==
            IF boundaryMatch = Null THEN ParseSinglePart(raw)
            ELSE ParseMultipart(raw, boundaryMatch.val)
    IN  Parse(BoundaryMatch(raw))

-----------------------------------------------------------------------------
(* handleEmail: the sender and the subject.                                *)

\* The surrogate code units: a high one followed by a low one is one code
\* point above U+FFFF.
HighSurrogates == 55296..56319

LowSurrogates == 56320..57343

\* The code unit at i is the second half of a surrogate pair of s.
IsTrail(s, i) ==
    i > 1 /\ s[i] \in LowSurrogates /\ s[i - 1] \in HighSurrogates

\* The code unit at i is the first half of a surrogate pair of s.
IsLead(s, i) ==
    i < Len(s) /\ s[i] \in HighSurrogates /\ s[i + 1] \in LowSurrogates

\* The code point that begins at i.
CodePointAt(s, i) ==
    IF IsLead(s, i)
    THEN 65536 + (s[i] - 55296) * 1024 + (s[i + 1] - 56320)
    ELSE s[i]

\* The code units of a code point.
CodeUnitsOf(cp) ==
    IF cp < 65536 THEN <<cp>>
    ELSE <<55296 + ((cp - 65536) \div 1024), 56320 + ((cp - 65536) % 1024)>>

\* The simple lower-case mappings of the Unicode Character Database
\* (UnicodeData.txt of Unicode 17.0), as <<first, last, step, delta>>: every
\* step-th code point from first to last maps to itself plus delta.
LowerCaseMappings ==
    {
      <<65, 90, 1, 32>>, <<192, 214, 1, 32>>, <<216, 222, 1, 32>>, <<256, 302, 2, 1>>,
      <<306, 310, 2, 1>>, <<313, 327, 2, 1>>, <<330, 374, 2, 1>>, <<376, 376, 1, -121>>,
      <<377, 381, 2, 1>>, <<385, 385, 1, 210>>, <<386, 388, 2, 1>>, <<390, 390, 1, 206>>,
      <<391, 391, 1, 1>>, <<393, 394, 1, 205>>, <<395, 395, 1, 1>>, <<398, 398, 1, 79>>,
      <<399, 399, 1, 202>>, <<400, 400, 1, 203>>, <<401, 401, 1, 1>>, <<403, 403, 1, 205>>,
      <<404, 404, 1, 207>>, <<406, 406, 1, 211>>, <<407, 407, 1, 209>>, <<408, 408, 1, 1>>,
      <<412, 412, 1, 211>>, <<413, 413, 1, 213>>, <<415, 415, 1, 214>>, <<416, 420, 2, 1>>,
      <<422, 422, 1, 218>>, <<423, 423, 1, 1>>, <<425, 425, 1, 218>>, <<428, 428, 1, 1>>,
      <<430, 430, 1, 218>>, <<431, 431, 1, 1>>, <<433, 434, 1, 217>>, <<435, 437, 2, 1>>,
      <<439, 439, 1, 219>>, <<440, 440, 1, 1>>, <<444, 444, 1, 1>>, <<452, 452, 1, 2>>,
      <<453, 453, 1, 1>>, <<455, 455, 1, 2>>, <<456, 456, 1, 1>>, <<458, 458, 1, 2>>,
      <<459, 475, 2, 1>>, <<478, 494, 2, 1>>, <<497, 497, 1, 2>>, <<498, 500, 2, 1>>,
      <<502, 502, 1, -97>>, <<503, 503, 1, -56>>, <<504, 542, 2, 1>>, <<544, 544, 1, -130>>,
      <<546, 562, 2, 1>>, <<570, 570, 1, 10795>>, <<571, 571, 1, 1>>, <<573, 573, 1, -163>>,
      <<574, 574, 1, 10792>>, <<577, 577, 1, 1>>, <<579, 579, 1, -195>>, <<580, 580, 1, 69>>,
      <<581, 581, 1, 71>>, <<582, 590, 2, 1>>, <<880, 882, 2, 1>>, <<886, 886, 1, 1>>,
      <<895, 895, 1, 116>>, <<902, 902, 1, 38>>, <<904, 906, 1, 37>>, <<908, 908, 1, 64>>,
      <<910, 911, 1, 63>>, <<913, 929, 1, 32>>, <<931, 939, 1, 32>>, <<975, 975, 1, 8>>,
      <<984, 1006, 2, 1>>, <<1012, 1012, 1, -60>>, <<1015, 1015, 1, 1>>, <<1017, 1017, 1, -7>>,
      <<1018, 1018, 1, 1>>, <<1021, 1023, 1, -130>>, <<1024, 1039, 1, 80>>, <<1040, 1071, 1, 32>>,
      <<1120, 1152, 2, 1>>, <<1162, 1214, 2, 1>>, <<1216, 1216, 1, 15>>, <<1217, 1229, 2, 1>>,
      <<1232, 1326, 2, 1>>, <<1329, 1366, 1, 48>>, <<4256, 4293, 1, 7264>>, <<4295, 4295, 1, 7264>>,
      <<4301, 4301, 1, 7264>>, <<5024, 5103, 1, 38864>>, <<5104, 5109, 1, 8>>, <<7305, 7305, 1, 1>>,
      <<7312, 7354, 1, -3008>>, <<7357, 7359, 1, -3008>>, <<7680, 7828, 2, 1>>, <<7838, 7838, 1, -7615>>,
      <<7840, 7934, 2, 1>>, <<7944, 7951, 1, -8>>, <<7960, 7965, 1, -8>>, <<7976, 7983, 1, -8>>,
      <<7992, 7999, 1, -8>>, <<8008, 8013, 1, -8>>, <<8025, 8031, 2, -8>>, <<8040, 8047, 1, -8>>,
      <<8072, 8079, 1, -8>>, <<8088, 8095, 1, -8>>, <<8104, 8111, 1, -8>>, <<8120, 8121, 1, -8>>,
      <<8122, 8123, 1, -74>>, <<8124, 8124, 1, -9>>, <<8136, 8139, 1, -86>>, <<8140, 8140, 1, -9>>,
      <<8152, 8153, 1, -8>>, <<8154, 8155, 1, -100>>, <<8168, 8169, 1, -8>>, <<8170, 8171, 1, -112>>,
      <<8172, 8172, 1, -7>>, <<8184, 8185, 1, -128>>, <<8186, 8187, 1, -126>>, <<8188, 8188, 1, -9>>,
      <<8486, 8486, 1, -7517>>, <<8490, 8490, 1, -8383>>, <<8491, 8491, 1, -8262>>, <<8498, 8498, 1, 28>>,
      <<8544, 8559, 1, 16>>, <<8579, 8579, 1, 1>>, <<9398, 9423, 1, 26>>, <<11264, 11311, 1, 48>>,
      <<11360, 11360, 1, 1>>, <<11362, 11362, 1, -10743>>, <<11363, 11363, 1, -3814>>, <<11364, 11364, 1, -10727>>,
      <<11367, 11371, 2, 1>>, <<11373, 11373, 1, -10780>>, <<11374, 11374, 1, -10749>>, <<11375, 11375, 1, -10783>>,
      <<11376, 11376, 1, -10782>>, <<11378, 11378, 1, 1>>, <<11381, 11381, 1, 1>>, <<11390, 11391, 1, -10815>>,
      <<11392, 11490, 2, 1>>, <<11499, 11501, 2, 1>>, <<11506, 11506, 1, 1>>, <<42560, 42604, 2, 1>>,
      <<42624, 42650, 2, 1>>, <<42786, 42798, 2, 1>>, <<42802, 42862, 2, 1>>, <<42873, 42875, 2, 1>>,
      <<42877, 42877, 1, -35332>>, <<42878, 42886, 2, 1>>, <<42891, 42891, 1, 1>>, <<42893, 42893, 1, -42280>>,
      <<42896, 42898, 2, 1>>, <<42902, 42920, 2, 1>>, <<42922, 42922, 1, -42308>>, <<42923, 42923, 1, -42319>>,
      <<42924, 42924, 1, -42315>>, <<42925, 42925, 1, -42305>>, <<42926, 42926, 1, -42308>>, <<42928, 42928, 1, -42258>>,
      <<42929, 42929, 1, -42282>>, <<42930, 42930, 1, -42261>>, <<42931, 42931, 1, 928>>, <<42932, 42946, 2, 1>>,
      <<42948, 42948, 1, -48>>, <<42949, 42949, 1, -42307>>, <<42950, 42950, 1, -35384>>, <<42951, 42953, 2, 1>>,
      <<42955, 42955, 1, -42343>>, <<42956, 42970, 2, 1>>, <<42972, 42972, 1, -42561>>, <<42997, 42997, 1, 1>>,
      <<65313, 65338, 1, 32>>, <<66560, 66599, 1, 40>>, <<66736, 66771, 1, 40>>, <<66928, 66938, 1, 39>>,
      <<66940, 66954, 1, 39>>, <<66956, 66962, 1, 39>>, <<66964, 66965, 1, 39>>, <<68736, 68786, 1, 64>>,
      <<68944, 68965, 1, 32>>, <<71840, 71871, 1, 32>>, <<93760, 93791, 1, 32>>, <<93856, 93880, 1, 27>>,
      <<125184, 125217, 1, 34>> }

\* The code points with the property Cased and without Case_Ignorable
\* (DerivedCoreProperties.txt of Unicode 17.0), as <<first, last>>.
CasedRanges ==
    {
      <<65, 90>>, <<97, 122>>, <<170, 170>>, <<181, 181>>, <<186, 186>>, <<192, 214>>,
      <<216, 246>>, <<248, 442>>, <<444, 447>>, <<452, 659>>, <<662, 687>>, <<880, 883>>,
      <<886, 887>>, <<891, 893>>, <<895, 895>>, <<902, 902>>, <<904, 906>>, <<908, 908>>,
      <<910, 929>>, <<931, 1013>>, <<1015, 1153>>, <<1162, 1327>>, <<1329, 1366>>, <<1376, 1416>>,
      <<4256, 4293>>, <<4295, 4295>>, <<4301, 4301>>, <<4304, 4346>>, <<4349, 4351>>, <<5024, 5109>>,
      <<5112, 5117>>, <<7296, 7306>>, <<7312, 7354>>, <<7357, 7359>>, <<7424, 7467>>, <<7531, 7543>>,
      <<7545, 7578>>, <<7680, 7957>>, <<7960, 7965>>, <<7968, 8005>>, <<8008, 8013>>, <<8016, 8023>>,
      <<8025, 8025>>, <<8027, 8027>>, <<8029, 8029>>, <<8031, 8061>>, <<8064, 8116>>, <<8118, 8124>>,
      <<8126, 8126>>, <<8130, 8132>>, <<8134, 8140>>, <<8144, 8147>>, <<8150, 8155>>, <<8160, 8172>>,
      <<8178, 8180>>, <<8182, 8188>>, <<8450, 8450>>, <<8455, 8455>>, <<8458, 8467>>, <<8469, 8469>>,
      <<8473, 8477>>, <<8484, 8484>>, <<8486, 8486>>, <<8488, 8488>>, <<8490, 8493>>, <<8495, 8500>>,
      <<8505, 8505>>, <<8508, 8511>>, <<8517, 8521>>, <<8526, 8526>>, <<8544, 8575>>, <<8579, 8580>>,
      <<9398, 9449>>, <<11264, 11387>>, <<11390, 11492>>, <<11499, 11502>>, <<11506, 11507>>, <<11520, 11557>>,
      <<11559, 11559>>, <<11565, 11565>>, <<42560, 42605>>, <<42624, 42651>>, <<42786, 42863>>, <<42865, 42887>>,
      <<42891, 42894>>, <<42896, 42972>>, <<42997, 42998>>, <<43002, 43002>>, <<43824, 43866>>, <<43872, 43880>>,
      <<43888, 43967>>, <<64256, 64262>>, <<64275, 64279>>, <<65313, 65338>>, <<65345, 65370>>, <<66560, 66639>>,
      <<66736, 66771>>, <<66776, 66811>>, <<66928, 66938>>, <<66940, 66954>>, <<66956, 66962>>, <<66964, 66965>>,
      <<66967, 66977>>, <<66979, 66993>>, <<66995, 67001>>, <<67003, 67004>>, <<68736, 68786>>, <<68800, 68850>>,
      <<68944, 68965>>, <<68976, 68997>>, <<71840, 71903>>, <<93760, 93823>>, <<93856, 93880>>, <<93883, 93907>>,
      <<119808, 119892>>, <<119894, 119964>>, <<119966, 119967>>, <<119970, 119970>>, <<119973, 119974>>, <<119977, 119980>>,
      <<119982, 119993>>, <<119995, 119995>>, <<119997, 120003>>, <<120005, 120069>>, <<120071, 120074>>, <<120077, 120084>>,
      <<120086, 120092>>, <<120094, 120121>>, <<120123, 120126>>, <<120128, 120132>>, <<120134, 120134>>, <<120138, 120144>>,
      <<120146, 120485>>, <<120488, 120512>>, <<120514, 120538>>, <<120540, 120570>>, <<120572, 120596>>, <<120598, 120628>>,
      <<120630, 120654>>, <<120656, 120686>>, <<120688, 120712>>, <<120714, 120744>>, <<120746, 120770>>, <<120772, 120779>>,
      <<122624, 122633>>, <<122635, 122654>>, <<122661, 122666>>, <<125184, 125251>>, <<127280, 127305>>, <<127312, 127337>>,
      <<127344, 127369>> }

\* The code points with the property Case_Ignorable
\* (DerivedCoreProperties.txt of Unicode 17.0), as <<first, last>>.
CaseIgnorableRanges ==
    {
      <<39, 39>>, <<46, 46>>, <<58, 58>>, <<94, 94>>, <<96, 96>>, <<168, 168>>,
      <<173, 173>>, <<175, 175>>, <<180, 180>>, <<183, 184>>, <<688, 879>>, <<884, 885>>,
      <<890, 890>>, <<900, 901>>, <<903, 903>>, <<1155, 1161>>, <<1369, 1369>>, <<1375, 1375>>,
      <<1425, 1469>>, <<1471, 1471>>, <<1473, 1474>>, <<1476, 1477>>, <<1479, 1479>>, <<1524, 1524>>,
      <<1536, 1541>>, <<1552, 1562>>, <<1564, 1564>>, <<1600, 1600>>, <<1611, 1631>>, <<1648, 1648>>,
      <<1750, 1757>>, <<1759, 1768>>, <<1770, 1773>>, <<1807, 1807>>, <<1809, 1809>>, <<1840, 1866>>,
      <<1958, 1968>>, <<2027, 2037>>, <<2042, 2042>>, <<2045, 2045>>, <<2070, 2093>>, <<2137, 2139>>,
      <<2184, 2184>>, <<2192, 2193>>, <<2199, 2207>>, <<2249, 2306>>, <<2362, 2362>>, <<2364, 2364>>,
      <<2369, 2376>>, <<2381, 2381>>, <<2385, 2391>>, <<2402, 2403>>, <<2417, 2417>>, <<2433, 2433>>,
      <<2492, 2492>>, <<2497, 2500>>, <<2509, 2509>>, <<2530, 2531>>, <<2558, 2558>>, <<2561, 2562>>,
      <<2620, 2620>>, <<2625, 2626>>, <<2631, 2632>>, <<2635, 2637>>, <<2641, 2641>>, <<2672, 2673>>,
      <<2677, 2677>>, <<2689, 2690>>, <<2748, 2748>>, <<2753, 2757>>, <<2759, 2760>>, <<2765, 2765>>,
      <<2786, 2787>>, <<2810, 2815>>, <<2817, 2817>>, <<2876, 2876>>, <<2879, 2879>>, <<2881, 2884>>,
      <<2893, 2893>>, <<2901, 2902>>, <<2914, 2915>>, <<2946, 2946>>, <<3008, 3008>>, <<3021, 3021>>,
      <<3072, 3072>>, <<3076, 3076>>, <<3132, 3132>>, <<3134, 3136>>, <<3142, 3144>>, <<3146, 3149>>,
      <<3157, 3158>>, <<3170, 3171>>, <<3201, 3201>>, <<3260, 3260>>, <<3263, 3263>>, <<3270, 3270>>,
      <<3276, 3277>>, <<3298, 3299>>, <<3328, 3329>>, <<3387, 3388>>, <<3393, 3396>>, <<3405, 3405>>,
      <<3426, 3427>>, <<3457, 3457>>, <<3530, 3530>>, <<3538, 3540>>, <<3542, 3542>>, <<3633, 3633>>,
      <<3636, 3642>>, <<3654, 3662>>, <<3761, 3761>>, <<3764, 3772>>, <<3782, 3782>>, <<3784, 3790>>,
      <<3864, 3865>>, <<3893, 3893>>, <<3895, 3895>>, <<3897, 3897>>, <<3953, 3966>>, <<3968, 3972>>,
      <<3974, 3975>>, <<3981, 3991>>, <<3993, 4028>>, <<4038, 4038>>, <<4141, 4144>>, <<4146, 4151>>,
      <<4153, 4154>>, <<4157, 4158>>, <<4184, 4185>>, <<4190, 4192>>, <<4209, 4212>>, <<4226, 4226>>,
      <<4229, 4230>>, <<4237, 4237>>, <<4253, 4253>>, <<4348, 4348>>, <<4957, 4959>>, <<5906, 5908>>,
      <<5938, 5939>>, <<5970, 5971>>, <<6002, 6003>>, <<6068, 6069>>, <<6071, 6077>>, <<6086, 6086>>,
      <<6089, 6099>>, <<6103, 6103>>, <<6109, 6109>>, <<6155, 6159>>, <<6211, 6211>>, <<6277, 6278>>,
      <<6313, 6313>>, <<6432, 6434>>, <<6439, 6440>>, <<6450, 6450>>, <<6457, 6459>>, <<6679, 6680>>,
      <<6683, 6683>>, <<6742, 6742>>, <<6744, 6750>>, <<6752, 6752>>, <<6754, 6754>>, <<6757, 6764>>,
      <<6771, 6780>>, <<6783, 6783>>, <<6823, 6823>>, <<6832, 6877>>, <<6880, 6891>>, <<6912, 6915>>,
      <<6964, 6964>>, <<6966, 6970>>, <<6972, 6972>>, <<6978, 6978>>, <<7019, 7027>>, <<7040, 7041>>,
      <<7074, 7077>>, <<7080, 7081>>, <<7083, 7085>>, <<7142, 7142>>, <<7144, 7145>>, <<7149, 7149>>,
      <<7151, 7153>>, <<7212, 7219>>, <<7222, 7223>>, <<7288, 7293>>, <<7376, 7378>>, <<7380, 7392>>,
      <<7394, 7400>>, <<7405, 7405>>, <<7412, 7412>>, <<7416, 7417>>, <<7468, 7530>>, <<7544, 7544>>,
      <<7579, 7679>>, <<8125, 8125>>, <<8127, 8129>>, <<8141, 8143>>, <<8157, 8159>>, <<8173, 8175>>,
      <<8189, 8190>>, <<8203, 8207>>, <<8216, 8217>>, <<8228, 8228>>, <<8231, 8231>>, <<8234, 8238>>,
      <<8288, 8292>>, <<8294, 8303>>, <<8305, 8305>>, <<8319, 8319>>, <<8336, 8348>>, <<8400, 8432>>,
      <<11388, 11389>>, <<11503, 11505>>, <<11631, 11631>>, <<11647, 11647>>, <<11744, 11775>>, <<11823, 11823>>,
      <<12293, 12293>>, <<12330, 12333>>, <<12337, 12341>>, <<12347, 12347>>, <<12441, 12446>>, <<12540, 12542>>,
      <<40981, 40981>>, <<42232, 42237>>, <<42508, 42508>>, <<42607, 42610>>, <<42612, 42621>>, <<42623, 42623>>,
      <<42652, 42655>>, <<42736, 42737>>, <<42752, 42785>>, <<42864, 42864>>, <<42888, 42890>>, <<42993, 42996>>,
      <<43000, 43001>>, <<43010, 43010>>, <<43014, 43014>>, <<43019, 43019>>, <<43045, 43046>>, <<43052, 43052>>,
      <<43204, 43205>>, <<43232, 43249>>, <<43263, 43263>>, <<43302, 43309>>, <<43335, 43345>>, <<43392, 43394>>,
      <<43443, 43443>>, <<43446, 43449>>, <<43452, 43453>>, <<43471, 43471>>, <<43493, 43494>>, <<43561, 43566>>,
      <<43569, 43570>>, <<43573, 43574>>, <<43587, 43587>>, <<43596, 43596>>, <<43632, 43632>>, <<43644, 43644>>,
      <<43696, 43696>>, <<43698, 43700>>, <<43703, 43704>>, <<43710, 43711>>, <<43713, 43713>>, <<43741, 43741>>,
      <<43756, 43757>>, <<43763, 43764>>, <<43766, 43766>>, <<43867, 43871>>, <<43881, 43883>>, <<44005, 44005>>,
      <<44008, 44008>>, <<44013, 44013>>, <<64286, 64286>>, <<64434, 64450>>, <<65024, 65039>>, <<65043, 65043>>,
      <<65056, 65071>>, <<65106, 65106>>, <<65109, 65109>>, <<65279, 65279>>, <<65287, 65287>>, <<65294, 65294>>,
      <<65306, 65306>>, <<65342, 65342>>, <<65344, 65344>>, <<65392, 65392>>, <<65438, 65439>>, <<65507, 65507>>,
      <<65529, 65531>>, <<66045, 66045>>, <<66272, 66272>>, <<66422, 66426>>, <<67456, 67461>>, <<67463, 67504>>,
      <<67506, 67514>>, <<68097, 68099>>, <<68101, 68102>>, <<68108, 68111>>, <<68152, 68154>>, <<68159, 68159>>,
      <<68325, 68326>>, <<68900, 68903>>, <<68942, 68942>>, <<68969, 68973>>, <<68975, 68975>>, <<69291, 69292>>,
      <<69317, 69317>>, <<69370, 69375>>, <<69446, 69456>>, <<69506, 69509>>, <<69633, 69633>>, <<69688, 69702>>,
      <<69744, 69744>>, <<69747, 69748>>, <<69759, 69761>>, <<69811, 69814>>, <<69817, 69818>>, <<69821, 69821>>,
      <<69826, 69826>>, <<69837, 69837>>, <<69888, 69890>>, <<69927, 69931>>, <<69933, 69940>>, <<70003, 70003>>,
      <<70016, 70017>>, <<70070, 70078>>, <<70089, 70092>>, <<70095, 70095>>, <<70191, 70193>>, <<70196, 70196>>,
      <<70198, 70199>>, <<70206, 70206>>, <<70209, 70209>>, <<70367, 70367>>, <<70371, 70378>>, <<70400, 70401>>,
      <<70459, 70460>>, <<70464, 70464>>, <<70502, 70508>>, <<70512, 70516>>, <<70587, 70592>>, <<70606, 70606>>,
      <<70608, 70608>>, <<70610, 70610>>, <<70625, 70626>>, <<70712, 70719>>, <<70722, 70724>>, <<70726, 70726>>,
      <<70750, 70750>>, <<70835, 70840>>, <<70842, 70842>>, <<70847, 70848>>, <<70850, 70851>>, <<71090, 71093>>,
      <<71100, 71101>>, <<71103, 71104>>, <<71132, 71133>>, <<71219, 71226>>, <<71229, 71229>>, <<71231, 71232>>,
      <<71339, 71339>>, <<71341, 71341>>, <<71344, 71349>>, <<71351, 71351>>, <<71453, 71453>>, <<71455, 71455>>,
      <<71458, 71461>>, <<71463, 71467>>, <<71727, 71735>>, <<71737, 71738>>, <<71995, 71996>>, <<71998, 71998>>,
      <<72003, 72003>>, <<72148, 72151>>, <<72154, 72155>>, <<72160, 72160>>, <<72193, 72202>>, <<72243, 72248>>,
      <<72251, 72254>>, <<72263, 72263>>, <<72273, 72278>>, <<72281, 72283>>, <<72330, 72342>>, <<72344, 72345>>,
      <<72544, 72544>>, <<72546, 72548>>, <<72550, 72550>>, <<72752, 72758>>, <<72760, 72765>>, <<72767, 72767>>,
      <<72850, 72871>>, <<72874, 72880>>, <<72882, 72883>>, <<72885, 72886>>, <<73009, 73014>>, <<73018, 73018>>,
      <<73020, 73021>>, <<73023, 73029>>, <<73031, 73031>>, <<73104, 73105>>, <<73109, 73109>>, <<73111, 73111>>,
      <<73177, 73177>>, <<73459, 73460>>, <<73472, 73473>>, <<73526, 73530>>, <<73536, 73536>>, <<73538, 73538>>,
      <<73562, 73562>>, <<78896, 78912>>, <<78919, 78933>>, <<90398, 90409>>, <<90413, 90415>>, <<92912, 92916>>,
      <<92976, 92982>>, <<92992, 92995>>, <<93504, 93506>>, <<93547, 93548>>, <<94031, 94031>>, <<94095, 94111>>,
      <<94176, 94177>>, <<94179, 94180>>, <<94194, 94195>>, <<110576, 110579>>, <<110581, 110587>>, <<110589, 110590>>,
      <<113821, 113822>>, <<113824, 113827>>, <<118528, 118573>>, <<118576, 118598>>, <<119143, 119145>>, <<119155, 119170>>,
      <<119173, 119179>>, <<119210, 119213>>, <<119362, 119364>>, <<121344, 121398>>, <<121403, 121452>>, <<121461, 121461>>,
      <<121476, 121476>>, <<121499, 121503>>, <<121505, 121519>>, <<122880, 122886>>, <<122888, 122904>>, <<122907, 122913>>,
      <<122915, 122916>>, <<122918, 122922>>, <<122928, 122989>>, <<123023, 123023>>, <<123184, 123197>>, <<123566, 123566>>,
      <<123628, 123631>>, <<124139, 124143>>, <<124398, 124399>>, <<124643, 124643>>, <<124646, 124646>>, <<124654, 124655>>,
      <<124661, 124661>>, <<124671, 124671>>, <<125136, 125142>>, <<125252, 125259>>, <<127995, 127999>>, <<917505, 917505>>,
      <<917536, 917631>>, <<917760, 917999>> }

\* c lies in one of the ranges.
InRanges(c, ranges) == \E r \in ranges : r[1] <= c /\ c <= r[2]

\* The lower case of a code point by its simple mapping.
SimpleLowerCase(cp) ==
    LET hit == {r \in LowerCaseMappings :
                   r[1] <= cp /\ cp <= r[2] /\ (cp - r[1]) % r[3] = 0}
    IN  IF hit = {} THEN cp ELSE cp + (CHOOSE r \in hit : TRUE)[4]

\* Final_Sigma of SpecialCasing.txt for the capital sigma at i: looking past
\* the case-ignorable code points, a cased letter comes before it and none
\* comes after it.
FinalSigma(s, i) ==
    LET solid == {j \in 1..Len(s) :
                     /\ ~IsTrail(s, j)
                     /\ ~InRanges(CodePointAt(s, j), CaseIgnorableRanges)}
        before == {j \in solid : j < i}
        after == {j \in solid : j > i}
    IN  /\ before # {}
        /\ InRanges(CodePointAt(s, Max(before)), CasedRanges)
        /\ (after = {} \/ ~InRanges(CodePointAt(s, Min(after)), CasedRanges))

\* The code unit that stands for the one at i in the lower case of s, for a
\* code unit other than U+0130: a surrogate pair is lowered as its code
\* point, a capital sigma becomes the final or the medial small sigma.
LowerUnit(s, i) ==
    IF IsTrail(s, i)
    THEN CodeUnitsOf(SimpleLowerCase(CodePointAt(s, i - 1)))[2]
    ELSE IF IsLead(s, i)
    THEN CodeUnitsOf(SimpleLowerCase(CodePointAt(s, i)))[1]
    ELSE IF s[i] = 931 THEN (IF FinalSigma(s, i) THEN 962 ELSE 963)
    ELSE SimpleLowerCase(s[i])

\* String.prototype.toLowerCase: the locale-insensitive lower case of the
\* Unicode Character Database, code point by code point.  U+0130 becomes
\* U+0069 U+0307, the one mapping that lengthens the string.
ToLowerCase(s) ==
    LET dotted == {j \in 1..Len(s) : s[j] = 304}
        first(i) == i + Cardinality({j \in dotted : j < i})
        last(i) == IF i \in dotted THEN first(i) + 1 ELSE first(i)
    IN  [k \in 1..(Len(s) + Cardinality(dotted)) |->
            LET i == CHOOSE j \in 1..Len(s) : first(j) <= k /\ k <= last(j)
            IN  IF i \notin dotted THEN LowerUnit(s, i)
                ELSE IF k = first(i) THEN 105 ELSE 775]

\* [^"]
NotQuoteChars == CodeUnits \ {34}

\* ([^>]+@[^>]+)>?$ at u: the end of capture group 2, or -1.  The group is
\* the whole run of [^>] from u; it needs an '@' with a character before
\* and after it, and the string must end after the run or after one '>'.
AddrCoreEnd(s, u) ==
    LET End(g) ==
            IF /\ g = Len(s) \/ (At(s, g) = 62 /\ g + 1 = Len(s))
               /\ \E x \in (u + 1)..(g - 2) : At(s, x) = 64
            THEN g ELSE -1
    IN  End(RunEnd(s, u, NotGtChars))

\* <?([^>]+@[^>]+)>?$ at t: capture group 2 as [start, end], or NoMatch.
\* A '<' at t is consumed first; if the rest does not match then, the '<'
\* is left to the group.
AddrTail(s, t) ==
    IF t < Len(s) /\ At(s, t) = 60 /\ AddrCoreEnd(s, t + 1) >= 0
    THEN Match(t + 1, AddrCoreEnd(s, t + 1), <<>>)
    ELSE IF AddrCoreEnd(s, t) >= 0 THEN Match(t, AddrCoreEnd(s, t), <<>>)
    ELSE NoMatch

\* The ways (?:"?([^"]*)"?\s+) can match at the start of s with the rest of
\* the pattern matching after it, as <<a, n, b, w>>: capture group 1 is
\* [a, n), a after the optional opening quote, b after the optional closing
\* quote, w after the white space.
AddrNameSplits(s) ==
    UNION {UNION {UNION {
        {<<a, n, b, w>> : w \in {v \in (b + 1)..RunEnd(s, b, WhiteSpaceChars) :
                                    AddrTail(s, v).matched}} :
        b \in {n} \cup (IF n < Len(s) /\ At(s, n) = 34 THEN {n + 1} ELSE {})} :
        n \in a..RunEnd(s, a, NotQuoteChars)} :
        a \in {0} \cup (IF Len(s) > 0 /\ At(s, 0) = 34 THEN {1} ELSE {})}

\* The split the backtracking search arrives at first: every quantifier is
\* greedy, so the opening quote is consumed if that leads to a match, then
\* the longest name, then the closing quote, then the longest white space.
AddrFirstSplit(splits) ==
    CHOOSE t \in splits :
        \A o \in splits :
            \/ t[1] > o[1]
            \/ t[1] = o[1] /\ t[2] > o[2]
            \/ t[1] = o[1] /\ t[2] = o[2] /\ t[3] > o[3]
            \/ t[1] = o[1] /\ t[2] = o[2] /\ t[3] = o[3] /\ t[4] >= o[4]

\* raw.match(/^(?:"?([^"]*)"?\s+)?<?([^>]+@[^>]+)>?$/): capture group 1
\* (Undefined if the optional group took no part) and capture group 2, or
\* NoMatch.
AddrMatch(raw) ==
    LET WithName(t) ==
            [matched |-> TRUE, name |-> Val(Substring(raw, t[1], t[2])),
             email |-> Substring(raw, AddrTail(raw, t[4]).index,
                                 AddrTail(raw, t[4]).end)]
        Bare(m) ==
            IF m.matched
            THEN [matched |-> TRUE, name |-> Undefined,
                  email |-> Substring(raw, m.index, m.end)]
            ELSE NoMatch
        Pick(splits) ==
            IF splits # {} THEN WithName(AddrFirstSplit(splits))
            ELSE Bare(AddrTail(raw, 0))
    IN  Pick(AddrNameSplits(raw))

\* parseEmailAddress(raw): name is match[1]?.trim() || undefined.
parseEmailAddress(raw) ==
    LET NameOf(n) ==
            IF n = Undefined \/ Trim(n.val) = <<>> THEN Undefined
            ELSE Val(Trim(n.val))
        Result(m) ==
            IF m.matched
            THEN [name |-> NameOf(m.name), email |-> ToLowerCase(Trim(m.email))]
            ELSE [name |-> Undefined, email |-> ToLowerCase(Trim(raw))]
    IN  Result(AddrMatch(raw))

L_subject == <<115, 117, 98, 106, 101, 99, 116, 58>>   \* "subject:"
L_no_subject == <<40, 110, 111, 32, 115, 117, 98, 106, 101, 99, 116, 41>>   \* "(no subject)"

\* LineTerminator of ECMAScript: what . does not match, and around which ^
\* and $ match under the m flag.
LineTerminators == {10, 13, 8232, 8233}

\* /^subject:\s*(.+)$/mi at p: where capture group 1 starts, or -1.  \s* is
\* greedy and runs over line terminators; it gives back white space until
\* the group has a character that is no line terminator to start with.
SubjectGroupStart(s, p) ==
    LET a == p + Len(L_subject)
        starts == {q \in a..RunEnd(s, a, WhiteSpaceChars) :
                      q < Len(s) /\ At(s, q) \notin LineTerminators}
    IN  IF /\ p = 0 \/ At(s, p - 1) \in LineTerminators
           /\ LitAt(s, p, L_subject, TRUE)
           /\ starts # {}
        THEN Max(starts) ELSE -1

\* rawEmail.match(/^subject:\s*(.+)$/mi): Val(capture group 1) of the
\* leftmost match, or Null.  The group runs to the end of its line.
SubjectMatch(s) ==
    LET Group(q) == Val(Substring(s, q, RunEnd(s, q, CodeUnits \ LineTerminators)))
        Leftmost(at) ==
            IF at = {} THEN Null ELSE Group(SubjectGroupStart(s, Min(at)))
    IN  Leftmost({p \in 0..(Len(s) - 1) : SubjectGroupStart(s, p) >= 0})

\* subjectMatch ? subjectMatch[1].trim() : '(no subject)'
SubjectOf(raw) ==
    LET Result(m) == IF m = Null THEN L_no_subject ELSE Trim(m.val)
    IN  Result(SubjectMatch(raw))

-----------------------------------------------------------------------------
(* The inputs: the messages delivered.  A raw message without headers,     *)
(* boundary parameter and blank line is its own text body.                 *)

\* The longest text built from fragments, in fragments.
MaxFrags == 3

\* The longest run of digits in the sweeps over the number of digits.
MaxDigits == 9

\* The most URLs in a generated text.
MaxUrls == 2

\* "0123456789012...", n digits
Digits(n) == [i \in 1..n |-> 48 + ((i - 1) % 10)]

\* The examples of docs/API.md, of the tests and of the specification.
DocTexts ==
    { <<>>,
      <<89, 111, 117, 114, 32, 99, 111, 100, 101, 32, 105, 115, 32, 49, 50, 51, 52, 53, 54>>,   \* "Your code is 123456"
      \* U+60A8 U+7684 U+9A8C U+8BC1 U+7801 U+FF1A "123456"
      <<24744, 30340, 39564, 35777, 30721, 65306, 49, 50, 51, 52, 53, 54>>,
      \* "Primary code: 111111, backup code: 222222"
      <<80, 114, 105, 109, 97, 114, 121, 32, 99, 111, 100, 101, 58, 32, 49, 49, 49, 49, 49, 49, 44, 32, 98, 97, 99, 107, 117, 112, 32, 99, 111, 100, 101, 58, 32, 50, 50, 50, 50, 50, 50>>,
      <<69, 114, 114, 111, 114, 32, 99, 111, 100, 101, 58, 32, 49, 50, 51>>,   \* "Error code: 123"
      <<67, 111, 100, 101, 58, 32, 49, 50, 51, 52, 53, 54, 55, 56>>,   \* "Code: 12345678"
      <<99, 111, 100, 101, 58, 32, 49, 50, 51, 52, 53, 54, 55, 56, 57>>,   \* "code: 123456789"
      <<89, 111, 117, 114, 32, 80, 73, 78, 58, 32, 49, 50, 51, 52>>,   \* "Your PIN: 1234"
      <<89, 111, 117, 114, 32, 110, 117, 109, 98, 101, 114, 58, 32, 49, 50, 51, 52, 53, 54, 55, 56, 57>>,   \* "Your number: 123456789"
      \* "Visit us: https://example.com/about"
      <<86, 105, 115, 105, 116, 32, 117, 115, 58, 32, 104, 116, 116, 112, 115, 58, 47, 47, 101, 120, 97, 109, 112, 108, 101, 46, 99, 111, 109, 47, 97, 98, 111, 117, 116>>,
      \* "Verify: https://example.com/verify?token=abc"
      <<86, 101, 114, 105, 102, 121, 58, 32, 104, 116, 116, 112, 115, 58, 47, 47, 101, 120, 97, 109, 112, 108, 101, 46, 99, 111, 109, 47, 118, 101, 114, 105, 102, 121, 63, 116, 111, 107, 101, 110, 61, 97, 98, 99>> }

\* "Your code is 123456"
EndToEndText == <<89, 111, 117, 114, 32, 99, 111, 100, 101, 32, 105, 115, 32, 49, 50, 51, 52, 53, 54>>

\* "<p>Click <a href='https://example.com/verify?token=abc'>here</a></p>"
EndToEndHtml == <<60, 112, 62, 67, 108, 105, 99, 107, 32, 60, 97, 32, 104, 114, 101, 102, 61, 39, 104, 116, 116, 112, 115, 58, 47, 47, 101, 120, 97, 109, 112, 108, 101, 46, 99, 111, 109, 47, 118, 101, 114, 105, 102, 121, 63, 116, 111, 107, 101, 110, 61, 97, 98, 99, 39, 62, 104, 101, 114, 101, 60, 47, 97, 62, 60, 47, 112, 62>>

CRLF == <<13, 10>>

\* A multipart/alternative message with the boundary XYZ, a text/plain part
\* and a text/html part.
MultipartMessage(textBody, htmlBody) ==
    \* "Subject: Hi"
    <<83, 117, 98, 106, 101, 99, 116, 58, 32, 72, 105>> \o CRLF
    \* "Content-Type: multipart/alternative; boundary=XYZ"
    \o <<67, 111, 110, 116, 101, 110, 116, 45, 84, 121, 112, 101, 58, 32, 109, 117, 108, 116, 105, 112, 97, 114, 116, 47, 97, 108, 116, 101, 114, 110, 97, 116, 105, 118, 101, 59, 32, 98, 111, 117, 110, 100, 97, 114, 121, 61, 88, 89, 90>> \o CRLF \o CRLF
    \* "--XYZ", "Content-Type: text/plain"
    \o <<45, 45, 88, 89, 90>> \o CRLF \o <<67, 111, 110, 116, 101, 110, 116, 45, 84, 121, 112, 101, 58, 32, 116, 101, 120, 116, 47, 112, 108, 97, 105, 110>> \o CRLF \o CRLF
    \o textBody \o CRLF
    \* "--XYZ", "Content-Type: text/html"
    \o <<45, 45, 88, 89, 90>> \o CRLF \o <<67, 111, 110, 116, 101, 110, 116, 45, 84, 121, 112, 101, 58, 32, 116, 101, 120, 116, 47, 104, 116, 109, 108>> \o CRLF \o CRLF
    \o htmlBody \o CRLF
    \* "--XYZ--"
    \o <<45, 45, 88, 89, 90, 45, 45>> \o CRLF

\* The raw message of the specification's end-to-end scenario.
EndToEndMessage == MultipartMessage(EndToEndText, EndToEndHtml)

\* A label and n digits after it, and n digits and a keyword after them, for
\* every number of digits.
DigitSweepTexts ==
    {<<99, 111, 100, 101, 58, 32>> \o Digits(n) : n \in 3..MaxDigits}   \* "code: "
        \cup {Digits(n) \o <<32, 105, 115, 32, 121, 111, 117, 114, 32, 99, 111, 100, 101>> : n \in 3..MaxDigits}   \* " is your code"

\* The messages delivered to the long-running worker of Spec.
RawMessages == DocTexts \cup DigitSweepTexts \cup {EndToEndMessage}

Fragments ==
    { <<99, 111, 100, 101>>,   \* "code"
      <<80, 73, 78>>,   \* "PIN"
      <<58, 32>>,   \* ": "
      <<32>>,   \* " "
      <<48, 49, 50, 51>>,   \* "0123"
      <<52, 53, 54, 55, 56>>,   \* "45678"
      <<32, 105, 115, 32, 121, 111, 117, 114, 32>>,   \* " is your "
      <<89, 111, 117, 114, 32>>,   \* "Your "
      \* U+9A8C U+8BC1 U+7801
      <<39564, 35777, 30721>>,
      \* U+60A8 U+7684
      <<24744, 30340>> }

\* The concatenations of at most n fragments.
RECURSIVE FragTexts(_)
FragTexts(n) ==
    IF n = 0 THEN {<<>>}
    ELSE LET shorter == FragTexts(n - 1)
         IN  shorter \cup {t \o f : t \in shorter, f \in Fragments}

\* A label and n digits after it, and n digits and a keyword after them, for
\* every number of digits and more labels.
WideDigitSweepTexts ==
    LET labels == { <<69, 114, 114, 111, 114, 32, 99, 111, 100, 101, 58, 32>>,   \* "Error code: "
                    <<118, 101, 114, 105, 102, 105, 99, 97, 116, 105, 111, 110>>,   \* "verification"
                    \* U+9A8C U+8BC1 U+7801 U+FF1A
                    <<39564, 35777, 30721, 65306>> }
        tails == { <<32, 111, 116, 112>>,   \* " otp"
                   \* U+662F U+60A8 U+7684 U+9A8C U+8BC1 U+7801
                   <<26159, 24744, 30340, 39564, 35777, 30721>> }
    IN  {l \o Digits(n) : l \in labels, n \in 3..MaxDigits}
            \cup {Digits(n) \o t : t \in tails, n \in 3..MaxDigits}

\* Every keyword of the patterns, and some words that are no keyword, with a
\* separator and six digits after it.
KeywordSweepTexts ==
    LET words == { <<67, 111, 100, 101>>, <<79, 84, 80>>, <<112, 105, 110>>, <<80, 97, 115, 115, 99, 111, 100, 101>>, <<112, 97, 115, 115, 119, 111, 114, 100>>,
                   <<86, 101, 114, 105, 102, 105, 99, 97, 116, 105, 111, 110>>, <<89, 111, 117, 114, 32, 99, 111, 100, 101>>, <<101, 110, 116, 101, 114, 32, 80, 73, 78>>, <<117, 115, 101, 32, 111, 116, 112>>,
                   <<111, 110, 101, 45, 116, 105, 109, 101, 32, 112, 97, 115, 115, 119, 111, 114, 100>>, <<79, 110, 101, 45, 84, 105, 109, 101, 32, 99, 111, 100, 101>>,
                   \* U+9A8C U+8BC1 U+7801, U+6821 U+9A8C U+7801,
                   \* U+52A8 U+6001 U+7801, U+5B89 U+5168 U+7801
                   <<39564, 35777, 30721>>, <<26657, 39564, 30721>>, <<21160, 24577, 30721>>, <<23433, 20840, 30721>>,
                   \* "number", "order #", "Call us at"
                   <<110, 117, 109, 98, 101, 114>>, <<111, 114, 100, 101, 114, 32, 35>>, <<67, 97, 108, 108, 32, 117, 115, 32, 97, 116>> }
        seps == { <<>>,
                  <<58>>,   \* ":"
                  <<32, 105, 115, 32>>,   \* " is "
                  <<58, 32>>,   \* ": "
                  <<10>>,   \* "\n"
                  <<65306>> }   \* U+FF1A
    IN  {w \o sp \o Digits(6) : w \in words, sp \in seps}

\* Two phrases, each one a code for some pattern, in both orders.
TwoCodeTexts ==
    LET phrases == { <<99, 111, 100, 101, 58, 32, 49, 49, 49, 49, 49, 49>>,   \* "code: 111111"
                     <<50, 50, 50, 50, 50, 50, 32, 105, 115, 32, 121, 111, 117, 114, 32, 99, 111, 100, 101>>,   \* "222222 is your code"
                     <<118, 101, 114, 105, 102, 105, 99, 97, 116, 105, 111, 110, 51, 51, 51, 51, 51, 51>>,   \* "verification333333"
                     \* U+9A8C U+8BC1 U+7801 U+FF1A "444444"
                     <<39564, 35777, 30721, 65306, 52, 52, 52, 52, 52, 52>>,
                     \* "555555" U+662F U+60A8 U+7684 U+9A8C U+8BC1 U+7801
                     <<53, 53, 53, 53, 53, 53, 26159, 24744, 30340, 39564, 35777, 30721>> }
    IN  {a \o <<44, 32>> \o b : a \in phrases, b \in phrases}

Urls ==
    { <<104, 116, 116, 112, 115, 58, 47, 47, 97, 46, 105, 111, 47, 118, 101, 114, 105, 102, 121>>,   \* "https://a.io/verify"
      <<104, 116, 116, 112, 58, 47, 47, 97, 46, 105, 111, 47, 114, 101, 115, 101, 116, 46>>,   \* "http://a.io/reset."
      <<104, 116, 116, 112, 115, 58, 47, 47, 97, 46, 105, 111, 47, 114, 101, 115, 101, 116, 45, 112, 97, 115, 115, 119, 111, 114, 100, 47, 99, 111, 110, 102, 105, 114, 109>>,   \* "https://a.io/reset-password/confirm"
      <<72, 84, 84, 80, 83, 58, 47, 47, 65, 46, 73, 79, 47, 76, 79, 71, 73, 78, 63, 116, 111, 107, 101, 110, 61, 120, 49>>,   \* "HTTPS://A.IO/LOGIN?token=x1"
      <<104, 116, 116, 112, 115, 58, 47, 47, 97, 46, 105, 111, 47, 120, 63, 105, 100, 61, 49, 38, 107, 101, 121, 61, 107>>,   \* "https://a.io/x?id=1&key=k"
      <<104, 116, 116, 112, 115, 58, 47, 47, 97, 46, 105, 111, 47, 117, 110, 115, 117, 98, 115, 99, 114, 105, 98, 101, 41>>,   \* "https://a.io/unsubscribe)"
      <<104, 116, 116, 112, 115, 58, 47, 47, 97, 46, 105, 111, 47, 97, 98, 111, 117, 116>>,   \* "https://a.io/about"
      <<104, 116, 116, 112, 115, 58, 47, 47, 109, 121, 45, 108, 111, 103, 105, 110, 46, 105, 111, 47, 97, 98, 111, 117, 116>>,   \* "https://my-login.io/about"
      <<104, 116, 116, 112, 115, 58, 47, 47, 97, 117, 116, 104, 46, 105, 111, 47, 97, 98, 111, 117, 116>>,   \* "https://auth.io/about"
      <<109, 97, 105, 108, 116, 111, 58, 118, 101, 114, 105, 102, 121, 64, 97, 46, 105, 111>> }   \* "mailto:verify@a.io"

\* At most n URLs, a space between two.
RECURSIVE UrlTexts(_)
UrlTexts(n) ==
    IF n = 1 THEN Urls
    ELSE LET fewer == UrlTexts(n - 1)
         IN  fewer \cup {t \o <<32>> \o u : t \in fewer, u \in Urls}

\* Messages with a text part and an html part that holds a link.
LinkMessages ==
    LET Anchor(u) == <<60, 97, 32, 104, 114, 101, 102, 61, 34>> \o u \o <<34, 62, 104, 101, 114, 101, 60, 47, 97, 62>>   \* "<a href=''...''>here</a>"
    IN  {MultipartMessage(t, Anchor(u)) :
            t \in {<<79, 112, 101, 110, 32>> \o v : v \in Urls}, u \in Urls}   \* "Open "

\* The messages a fresh worker serves first, in SpecFirstCall.
AllMessages ==
    RawMessages \cup FragTexts(MaxFrags) \cup WideDigitSweepTexts
        \cup KeywordSweepTexts \cup TwoCodeTexts \cup UrlTexts(MaxUrls)
        \cup LinkMessages

\* 1024 * 1024
MaxEmailSize == 1048576

\* "Service <noreply@a.io>"
Sender == <<83, 101, 114, 118, 105, 99, 101, 32, 60, 110, 111, 114, 101, 112, 108, 121, 64, 97, 46, 105, 111, 62>>


-----------------------------------------------------------------------------
(* The inputs of the email handlers: raw messages of every shape the MIME  *)
(* parser tells apart, and from addresses.                                 *)

\* The most segments in a generated multipart message.
MaxParts == 2

\* The segments the generated multipart messages are made of, each one the
\* text between two delimiter lines.
PartKinds ==
    << <<67, 111, 110, 116, 101, 110, 116, 45, 84, 121, 112, 101, 58, 32, 116, 101, 120, 116, 47, 112, 108, 97, 105, 110, 13, 10, 13, 10, 70, 105, 114, 115, 116, 32, 116, 101, 120, 116>>,   \* "Content-Type: text/plain\r\n\r\nFirst text"
       <<67, 111, 110, 116, 101, 110, 116, 45, 84, 121, 112, 101, 58, 32, 116, 101, 120, 116, 47, 112, 108, 97, 105, 110, 13, 10, 13, 10, 83, 101, 99, 111, 110, 100, 32, 116, 101, 120, 116>>,   \* "Content-Type: text/plain\r\n\r\nSecond text"
       <<67, 111, 110, 116, 101, 110, 116, 45, 84, 121, 112, 101, 58, 32, 116, 101, 120, 116, 47, 112, 108, 97, 105, 110, 13, 10, 13, 10>>,   \* "Content-Type: text/plain\r\n\r\n"
       <<67, 111, 110, 116, 101, 110, 116, 45, 84, 121, 112, 101, 58, 32, 116, 101, 120, 116, 47, 104, 116, 109, 108, 13, 10, 13, 10, 60, 112, 62, 79, 110, 101, 60, 47, 112, 62>>,   \* "Content-Type: text/html\r\n\r\n<p>One</p>"
       <<67, 111, 110, 116, 101, 110, 116, 45, 84, 121, 112, 101, 58, 32, 116, 101, 120, 116, 47, 104, 116, 109, 108, 13, 10, 13, 10, 60, 98, 62, 84, 119, 111, 60, 47, 98, 62>>,   \* "Content-Type: text/html\r\n\r\n<b>Two</b>"
       <<67, 111, 110, 116, 101, 110, 116, 45, 84, 121, 112, 101, 58, 32, 116, 101, 120, 116, 47, 112, 108, 97, 105, 110, 13, 10, 78, 111, 32, 115, 101, 112, 97, 114, 97, 116, 111, 114>>,   \* "Content-Type: text/plain\r\nNo separator"
       <<67, 111, 110, 116, 101, 110, 116, 45, 84, 121, 112, 101, 58, 32, 116, 101, 120, 116, 47, 104, 116, 109, 108, 13, 10, 60, 112, 62, 108, 111, 115, 116, 60, 47, 112, 62>>,   \* "Content-Type: text/html\r\n<p>lost</p>"
       <<67, 111, 110, 116, 101, 110, 116, 45, 84, 121, 112, 101, 58, 32, 105, 109, 97, 103, 101, 47, 112, 110, 103, 13, 10, 13, 10, 105, 86, 66, 79, 82, 119, 48, 75, 71, 103, 111, 61>>,   \* "Content-Type: image/png\r\n\r\niVBORw0KGgo="
       <<67, 111, 110, 116, 101, 110, 116, 45, 84, 121, 112, 101, 58, 32, 116, 101, 120, 116, 47, 112, 108, 97, 105, 110, 13, 10, 67, 111, 110, 116, 101, 110, 116, 45, 84, 114, 97, 110, 115, 102, 101, 114, 45, 69, 110, 99, 111, 100, 105, 110, 103, 58, 32, 113, 117, 111, 116, 101, 100, 45, 112, 114, 105, 110, 116, 97, 98, 108, 101, 13, 10, 13, 10, 99, 97, 102, 61, 69, 57, 32, 61, 13, 10, 97, 117, 32, 108, 97, 105, 116>>,   \* "Content-Type: text/plain\r\nContent-Transfer-Encoding: quoted-printable\r\n\r\ncaf=E9 =\r\nau lait"
       <<67, 111, 110, 116, 101, 110, 116, 45, 84, 121, 112, 101, 58, 32, 116, 101, 120, 116, 47, 104, 116, 109, 108, 13, 10, 67, 111, 110, 116, 101, 110, 116, 45, 84, 114, 97, 110, 115, 102, 101, 114, 45, 69, 110, 99, 111, 100, 105, 110, 103, 58, 32, 98, 97, 115, 101, 54, 52, 13, 10, 13, 10, 80, 71, 107, 43, 83, 71, 107, 56, 76, 50, 107, 43>>,   \* "Content-Type: text/html\r\nContent-Transfer-Encoding: base64\r\n\r\nPGk+SGk8L2k+"
       <<67, 111, 110, 116, 101, 110, 116, 45, 84, 121, 112, 101, 58, 32, 116, 101, 120, 116, 47, 112, 108, 97, 105, 110, 13, 10, 67, 111, 110, 116, 101, 110, 116, 45, 84, 114, 97, 110, 115, 102, 101, 114, 45, 69, 110, 99, 111, 100, 105, 110, 103, 58, 32, 98, 97, 115, 101, 54, 52, 13, 10, 13, 10, 78, 111, 116, 42, 98, 97, 115, 101, 54, 52>> >>   \* "Content-Type: text/plain\r\nContent-Transfer-Encoding: base64\r\n\r\nNot*base64"

\* Messages without a boundary parameter, or with one and no part to keep.
SinglePartMessages ==
    { <<72, 101, 108, 108, 111, 32, 112, 108, 97, 105, 110, 32, 98, 111, 100, 121>>,   \* "Hello plain body"
      <<83, 117, 98, 106, 101, 99, 116, 58, 32, 72, 105, 13, 10, 70, 114, 111, 109, 58, 32, 97, 64, 98, 46, 99, 13, 10, 13, 10, 66, 111, 100, 121, 32, 116, 101, 120, 116>>,   \* "Subject: Hi\r\nFrom: a@b.c\r\n\r\nBody text"
      <<67, 111, 110, 116, 101, 110, 116, 45, 84, 121, 112, 101, 58, 32, 116, 101, 120, 116, 47, 104, 116, 109, 108, 13, 10, 13, 10, 60, 112, 62, 72, 105, 32, 38, 97, 109, 112, 59, 32, 98, 121, 101, 60, 47, 112, 62>>,   \* "Content-Type: text/html\r\n\r\n<p>Hi &amp; bye</p>"
      <<83, 117, 98, 106, 101, 99, 116, 58, 32, 72, 105, 10, 67, 111, 110, 116, 101, 110, 116, 45, 84, 121, 112, 101, 58, 32, 116, 101, 120, 116, 47, 112, 108, 97, 105, 110, 10, 10, 66, 111, 100, 121, 32, 97, 102, 116, 101, 114, 32, 76, 70>>,   \* "Subject: Hi\nContent-Type: text/plain\n\nBody after LF"
      <<13, 10, 13, 10, 98, 111, 100, 121, 32, 97, 116, 32, 122, 101, 114, 111>>,   \* "\r\n\r\nbody at zero"
      <<67, 111, 110, 116, 101, 110, 116, 45, 84, 121, 112, 101, 58, 32, 116, 101, 120, 116, 47, 104, 116, 109, 108, 13, 10, 60, 112, 62, 110, 111, 32, 115, 101, 112, 97, 114, 97, 116, 111, 114, 60, 47, 112, 62>>,   \* "Content-Type: text/html\r\n<p>no separator</p>"
      <<67, 111, 110, 116, 101, 110, 116, 45, 84, 121, 112, 101, 58, 32, 116, 101, 120, 116, 47, 104, 116, 109, 108, 13, 10, 67, 111, 110, 116, 101, 110, 116, 45, 84, 114, 97, 110, 115, 102, 101, 114, 45, 69, 110, 99, 111, 100, 105, 110, 103, 58, 32, 98, 97, 115, 101, 54, 52, 13, 10, 13, 10, 80, 71, 107, 43, 83, 71, 107, 56, 76, 50, 107, 43>>,   \* "Content-Type: text/html\r\nContent-Transfer-Encoding: base64\r\n\r\nPGk+SGk8L2k+"
      <<67, 111, 110, 116, 101, 110, 116, 45, 84, 121, 112, 101, 58, 32, 116, 101, 120, 116, 47, 104, 116, 109, 108, 13, 10, 67, 111, 110, 116, 101, 110, 116, 45, 84, 114, 97, 110, 115, 102, 101, 114, 45, 69, 110, 99, 111, 100, 105, 110, 103, 58, 32, 98, 97, 115, 101, 54, 52, 13, 10, 13, 10, 60, 105, 62, 110, 111, 116, 32, 98, 97, 115, 101, 54, 52, 60, 47, 105, 62>>,   \* "Content-Type: text/html\r\nContent-Transfer-Encoding: base64\r\n\r\n<i>not base64</i>"
      <<67, 111, 110, 116, 101, 110, 116, 45, 84, 114, 97, 110, 115, 102, 101, 114, 45, 69, 110, 99, 111, 100, 105, 110, 103, 58, 32, 56, 98, 105, 116, 13, 10, 13, 10, 117, 110, 107, 110, 111, 119, 110, 32, 101, 110, 99, 111, 100, 105, 110, 103>>,   \* "Content-Transfer-Encoding: 8bit\r\n\r\nunknown encoding"
      <<67, 111, 110, 116, 101, 110, 116, 45, 84, 114, 97, 110, 115, 102, 101, 114, 45, 69, 110, 99, 111, 100, 105, 110, 103, 58, 32, 98, 97, 115, 101, 54, 52, 13, 10, 110, 111, 32, 115, 101, 112, 97, 114, 97, 116, 111, 114>>,   \* "Content-Transfer-Encoding: base64\r\nno separator"
      <<67, 111, 110, 116, 101, 110, 116, 45, 84, 121, 112, 101, 58, 32, 109, 117, 108, 116, 105, 112, 97, 114, 116, 47, 109, 105, 120, 101, 100, 59, 32, 98, 111, 117, 110, 100, 97, 114, 121, 61, 13, 10, 13, 10, 101, 109, 112, 116, 121, 32, 98, 111, 117, 110, 100, 97, 114, 121>>,   \* "Content-Type: multipart/mixed; boundary=\r\n\r\nempty boundary"
      <<67, 111, 110, 116, 101, 110, 116, 45, 84, 121, 112, 101, 58, 32, 109, 117, 108, 116, 105, 112, 97, 114, 116, 47, 109, 105, 120, 101, 100, 59, 32, 98, 111, 117, 110, 100, 97, 114, 121, 61, 34, 81, 34, 13, 10, 13, 10, 110, 111, 32, 112, 97, 114, 116, 32, 97, 116, 32, 97, 108, 108>>,   \* "Content-Type: multipart/mixed; boundary=\"Q\"\r\n\r\nno part at all"
      <<67, 111, 110, 116, 101, 110, 116, 45, 84, 121, 112, 101, 58, 32, 109, 117, 108, 116, 105, 112, 97, 114, 116, 47, 109, 105, 120, 101, 100, 59, 32, 98, 111, 117, 110, 100, 97, 114, 121, 61, 81, 13, 10, 13, 10, 45, 45, 81, 13, 10, 67, 111, 110, 116, 101, 110, 116, 45, 84, 121, 112, 101, 58, 32, 116, 101, 120, 116, 47, 104, 116, 109, 108, 13, 10, 13, 10, 13, 10, 45, 45, 81, 45, 45>> }   \* "Content-Type: multipart/mixed; boundary=Q\r\n\r\n--Q\r\nContent-Type: text/html\r\n\r\n\r\n--Q--"

\* Bodies of quoted-printable messages: the examples of test/mime.test.ts
\* and more escapes and soft line breaks.
QpBodies ==
    { <<72, 101, 108, 108, 111, 61, 50, 48, 87, 111, 114, 108, 100>>,   \* "Hello=20World"
      <<72, 101, 108, 108, 111, 61, 13, 10, 87, 111, 114, 108, 100>>,   \* "Hello=\r\nWorld"
      <<49, 43, 49, 61, 51, 68, 50>>,   \* "1+1=3D2"
      <<110, 111, 32, 101, 115, 99, 97, 112, 101, 115, 32, 104, 101, 114, 101>>,   \* "no escapes here"
      <<65, 61, 61, 10, 52, 49>>,   \* "A==\n41"
      <<61, 51, 68, 52, 49>>,   \* "=3D41"
      <<97, 61, 10, 98, 61, 13, 10, 99>>,   \* "a=\nb=\r\nc"
      <<98, 97, 100, 32, 61, 90, 90, 32, 61, 52>>,   \* "bad =ZZ =4"
      <<61, 101, 57, 61, 69, 57>>,   \* "=e9=E9"
      <<120, 61, 13, 121>>,   \* "x=\ry"
      <<61>>,   \* "="
      <<>>,   \* ""
      <<61, 61, 10, 51, 68>>,   \* "==\n3D"
      <<61, 10, 61, 10, 52, 49>>,   \* "=\n=\n41"
      <<61, 52, 61, 10, 49>>,   \* "=4=\n1"
      <<61, 13, 10>>,   \* "=\r\n"
      <<116, 97, 105, 108, 61, 10>> }   \* "tail=\n"

\* Bodies of base64 messages, some of them no base64 at all.
Base64Bodies ==
    { <<83, 71, 86, 115, 98, 71, 56, 61>>,   \* "SGVsbG8="
      <<83, 71, 86, 115, 32, 98, 71, 56, 61, 13, 10>>,   \* "SGVs bG8=\r\n"
      <<83, 71, 86, 115, 98, 71, 56>>,   \* "SGVsbG8"
      <<83, 71, 86, 115, 98, 71, 56, 42>>,   \* "SGVsbG8*"
      <<97, 98, 99, 100, 101>>,   \* "abcde"
      <<61, 97, 98, 99>>,   \* "=abc"
      <<90, 109, 57, 118, 61, 89, 109, 70, 121>>,   \* "Zm9v=YmFy"
      <<89, 50, 57, 107, 90, 84, 111, 103, 77, 84, 73, 122, 78, 65, 61, 61>>,   \* "Y29kZTogMTIzNA=="
      <<39564, 35777, 30721>>,   \* "\u9a8c\u8bc1\u7801"
      <<>>,   \* ""
      <<90, 103, 61>>,   \* "Zg="
      <<90, 103, 61, 61, 61>>,   \* "Zg==="
      <<90, 32, 103, 32, 61, 32, 61>> }   \* "Z g = ="

\* Messages with and without a Subject header line.
SubjectMessages ==
    { <<83, 117, 98, 106, 101, 99, 116, 58, 32, 72, 105, 13, 10, 13, 10, 98, 111, 100, 121>>,   \* "Subject: Hi\r\n\r\nbody"
      <<115, 117, 98, 106, 101, 99, 116, 58, 72, 105>>,   \* "subject:Hi"
      <<83, 85, 66, 74, 69, 67, 84, 58, 32, 32, 32, 115, 112, 97, 99, 101, 100, 32, 32, 13, 10, 70, 114, 111, 109, 58, 32, 97, 64, 98>>,   \* "SUBJECT:   spaced  \r\nFrom: a@b"
      <<70, 114, 111, 109, 58, 32, 97, 13, 10, 83, 117, 98, 106, 101, 99, 116, 58, 32, 84, 119, 111, 13, 10, 83, 117, 98, 106, 101, 99, 116, 58, 32, 84, 104, 114, 101, 101, 13, 10, 13, 10, 120>>,   \* "From: a\r\nSubject: Two\r\nSubject: Three\r\n\r\nx"
      <<70, 114, 111, 109, 58, 32, 97, 13, 10, 13, 10, 83, 117, 98, 106, 101, 99, 116, 58, 32, 105, 110, 32, 98, 111, 100, 121>>,   \* "From: a\r\n\r\nSubject: in body"
      <<83, 117, 98, 106, 101, 99, 116, 58, 13, 10, 70, 114, 111, 109, 58, 32, 97, 64, 98, 13, 10, 13, 10, 98, 111, 100, 121>>,   \* "Subject:\r\nFrom: a@b\r\n\r\nbody"
      <<83, 117, 98, 106, 101, 99, 116, 58, 32, 13, 10, 13, 10, 98, 111, 100, 121, 32, 116, 101, 120, 116>>,   \* "Subject: \r\n\r\nbody text"
      <<83, 117, 98, 106, 101, 99, 116, 58, 32, 32, 32>>,   \* "Subject:   "
      <<83, 117, 98, 106, 101, 99, 116, 58>>,   \* "Subject:"
      <<88, 45, 83, 117, 98, 106, 101, 99, 116, 58, 32, 110, 111, 13, 10, 13, 10, 98>>,   \* "X-Subject: no\r\n\r\nb"
      <<70, 114, 111, 109, 58, 32, 97, 13, 83, 117, 98, 106, 101, 99, 116, 58, 32, 99, 114, 13, 88, 58, 32, 121>>,   \* "From: a\rSubject: cr\rX: y"
      <<32, 83, 117, 98, 106, 101, 99, 116, 58, 32, 105, 110, 100, 101, 110, 116, 101, 100>>,   \* " Subject: indented"
      <<82, 101, 58, 32, 83, 117, 98, 106, 101, 99, 116, 58, 32, 120>>,   \* "Re: Subject: x"
      <<83, 117, 98, 106, 101, 99, 116, 58, 9, 32, 32, 118, 32, 9>>,   \* "Subject:\t  v \t"
      <<70, 114, 111, 109, 58, 32, 97, 64, 98, 13, 10, 84, 111, 58, 32, 99, 64, 100, 13, 10, 13, 10, 110, 111, 32, 115, 117, 98, 106, 101, 99, 116, 32, 97, 116, 32, 97, 108, 108>>,   \* "From: a@b\r\nTo: c@d\r\n\r\nno subject at all"
      <<83, 117, 98, 106, 101, 99, 116, 58, 32, 111, 110, 101, 13, 10, 13, 10, 83, 117, 98, 106, 101, 99, 116, 58, 32, 116, 119, 111>>,   \* "Subject: one\r\n\r\nSubject: two"
      <<70, 114, 111, 109, 58, 32, 97, 13, 10, 83, 117, 98, 106, 101, 99, 116, 58, 32, 13, 10, 13, 10>>,   \* "From: a\r\nSubject: \r\n\r\n"
      <<83, 117, 98, 106, 101, 99, 116, 58, 13, 10, 32, 102, 111, 108, 100, 101, 100, 13, 10, 13, 10, 98>> }   \* "Subject:\r\n folded\r\n\r\nb"

\* The from addresses of the messages.
Senders ==
    { <<74, 111, 104, 110, 32, 68, 111, 101, 32, 60, 106, 111, 104, 110, 64, 120, 46, 99, 111, 109, 62>>,   \* "John Doe <john@x.com>"
      <<34, 74, 111, 104, 110, 32, 68, 111, 101, 34, 32, 60, 74, 111, 104, 110, 64, 88, 46, 99, 111, 109, 62>>,   \* "\"John Doe\" <John@X.com>"
      <<106, 111, 104, 110, 64, 120, 46, 99, 111, 109>>,   \* "john@x.com"
      <<66, 111, 98, 32, 60, 66, 79, 66, 64, 935, 46, 913, 931, 62>>,   \* "Bob <BOB@\u03A7.\u0391\u03A3>"
      <<60, 106, 111, 104, 110, 64, 120, 46, 99, 111, 109, 62>>,   \* "<john@x.com>"
      <<32, 32, 106, 111, 104, 110, 64, 120, 46, 99, 111, 109, 32>>,   \* "  john@x.com "
      <<34, 34, 32, 60, 97, 64, 98, 46, 99, 62>>,   \* "\"\" <a@b.c>"
      <<34, 32, 34, 32, 60, 97, 64, 98, 46, 99, 62>>,   \* "\" \" <a@b.c>"
      <<74, 111, 104, 110, 32, 60, 97, 64, 98, 46, 99>>,   \* "John <a@b.c"
      <<97, 64, 98>>,   \* "a@b"
      <<64, 98>>,   \* "@b"
      <<97, 64>>,   \* "a@"
      <<60, 64, 97>>,   \* "<@a"
      <<60, 97, 64, 98, 62, 62>>,   \* "<a@b>>"
      <<97, 64, 98, 62>>,   \* "a@b>"
      <<97, 64, 98, 62, 120>>,   \* "a@b>x"
      <<34, 97, 34, 98, 34, 32, 60, 99, 64, 100, 46, 101, 62>>,   \* "\"a\"b\" <c@d.e>"
      <<34, 74, 32, 68, 111, 101, 32, 60, 106, 64, 120, 46, 121, 62>>,   \* "\"J Doe <j@x.y>"
      <<74, 32, 34, 81, 34, 32, 68, 32, 60, 106, 64, 120, 46, 121, 62>>,   \* "J \"Q\" D <j@x.y>"
      <<120, 32, 121, 32, 122, 64, 119>>,   \* "x y z@w"
      <<34, 120, 32, 60, 97, 64, 98, 62, 32, 121, 64, 122>>,   \* "\"x <a@b> y@z"
      <<>>,   \* ""
      <<110, 111, 32, 97, 116, 32, 115, 105, 103, 110>>,   \* "no at sign"
      <<65, 32, 66, 9, 10, 60, 67, 64, 68, 46, 69, 62>>,   \* "A B\t\n<C@D.E>"
      <<34, 65, 34, 32, 97, 64, 98, 32, 60, 99, 64, 100, 62>>,   \* "\"A\" a@b <c@d>"
      <<97, 64, 98, 32, 99, 64, 100>>,   \* "a@b c@d"
      <<60, 60, 97, 64, 98, 62>>,   \* "<<a@b>"
      <<34, 60, 97, 64, 98, 62>>,   \* "\"<a@b>"
      <<34, 32, 97, 64, 98>>,   \* "\" a@b"
      <<201, 32, 60, 201, 64, 88, 46, 89, 62>>,   \* "\xc9 <\xc9@X.Y>"
      <<34, 34, 97, 64, 98>>,   \* "\"\"a@b"
      <<62>>,   \* ">"
      <<34>> }   \* "\""

\* The sequences of 1 to n segments.
RECURSIVE PartLists(_)
PartLists(n) ==
    IF n = 1 THEN {<<PartKinds[k]>> : k \in 1..Len(PartKinds)}
    ELSE LET shorter == PartLists(n - 1)
         IN  shorter \cup {ps \o <<PartKinds[k]>> : ps \in shorter, k \in 1..Len(PartKinds)}

\* The segments ps, each after its delimiter line "--XYZ".
RECURSIVE JoinParts(_)
JoinParts(ps) ==
    IF ps = <<>> THEN <<>>
    ELSE <<45, 45, 88, 89, 90>> \o CRLF \o Head(ps) \o CRLF \o JoinParts(Tail(ps))

\* The multipart message of the segments ps: its headers, the segments and
\* the closing delimiter "--XYZ--".
MultipartOf(ps) ==
    \* "Subject: Hi\r\nContent-Type: multipart/mixed; boundary=XYZ\r\n\r\n"
    <<83, 117, 98, 106, 101, 99, 116, 58, 32, 72, 105, 13, 10, 67, 111, 110, 116, 101, 110, 116, 45, 84, 121, 112, 101, 58, 32, 109, 117, 108, 116, 105, 112, 97, 114, 116, 47, 109, 105, 120, 101, 100, 59, 32, 98, 111, 117, 110, 100, 97, 114, 121, 61, 88, 89, 90, 13, 10, 13, 10>>
        \o JoinParts(ps) \o <<45, 45, 88, 89, 90, 45, 45>> \o CRLF

\* "Content-Transfer-Encoding: quoted-printable\r\n\r\n" and the body.
QpMessage(body) ==
    <<67, 111, 110, 116, 101, 110, 116, 45, 84, 114, 97, 110, 115, 102, 101, 114, 45, 69, 110, 99, 111, 100, 105, 110, 103, 58, 32, 113, 117, 111, 116, 101, 100, 45, 112, 114, 105, 110, 116, 97, 98, 108, 101, 13, 10, 13, 10>> \o body

\* "Content-Transfer-Encoding: base64\r\n\r\n" and the body.
Base64Message(body) ==
    <<67, 111, 110, 116, 101, 110, 116, 45, 84, 114, 97, 110, 115, 102, 101, 114, 45, 69, 110, 99, 111, 100, 105, 110, 103, 58, 32, 98, 97, 115, 101, 54, 52, 13, 10, 13, 10>> \o body

\* A multipart message of n code units in all, n >= 200: a text/plain segment
\* "Your code is 4711" and an attachment segment filled with 'x'.
BigMessage(n) ==
    LET \* "Subject: big\r\nContent-Type: multipart/mixed; boundary=XYZ\r\n\r\n--XYZ\r\nContent-Type: text/plain\r\n\r\nYour code is 4711\r\n--XYZ\r\nContent-Type: application/octet-stream\r\n\r\n"
        head == <<83, 117, 98, 106, 101, 99, 116, 58, 32, 98, 105, 103, 13, 10>> \o <<67, 111, 110, 116, 101, 110, 116, 45, 84, 121, 112, 101, 58, 32, 109, 117, 108, 116, 105, 112, 97, 114, 116, 47, 109, 105, 120, 101, 100, 59, 32, 98, 111, 117, 110, 100, 97, 114, 121, 61, 88, 89, 90, 13, 10, 13, 10>> \o <<45, 45, 88, 89, 90, 13, 10>> \o <<67, 111, 110, 116, 101, 110, 116, 45, 84, 121, 112, 101, 58, 32, 116, 101, 120, 116, 47, 112, 108, 97, 105, 110, 13, 10, 13, 10>> \o <<89, 111, 117, 114, 32, 99, 111, 100, 101, 32, 105, 115, 32, 52, 55, 49, 49, 13, 10>> \o <<45, 45, 88, 89, 90, 13, 10>> \o <<67, 111, 110, 116, 101, 110, 116, 45, 84, 121, 112, 101, 58, 32, 97, 112, 112, 108, 105, 99, 97, 116, 105, 111, 110, 47, 111, 99, 116, 101, 116, 45, 115, 116, 114, 101, 97, 109, 13, 10, 13, 10>>
        \* "\r\n--XYZ--\r\n"
        foot == <<13, 10, 45, 45, 88, 89, 90, 45, 45, 13, 10>>
    IN  head \o [i \in 1..(n - Len(head) - Len(foot)) |-> 120] \o foot

\* The raw messages delivered in SpecIngest.
IngestMessages ==
    SinglePartMessages \cup SubjectMessages
        \cup {QpMessage(b) : b \in QpBodies}
        \cup {Base64Message(b) : b \in Base64Bodies}
        \cup {MultipartOf(ps) : ps \in PartLists(MaxParts)}

-----------------------------------------------------------------------------
(* The stores.  A handler runs from one store operation to the next in one *)
(* step: a step is the operation the request was waiting for taking        *)
(* effect, and the code of the handler that follows it up to the call of   *)
(* the next store operation, whose arguments (Date.now() among them) are   *)
(* evaluated in that step.  The requests the worker serves at a time       *)
(* interleave at their store operations, and time passes between them.     *)

\* env.EMAIL_RETENTION_MS as deployed: one hour.
RetentionMs == 3600000

\* The step of the clock, in ms.
TickMs == 1200000

\* The clock stops after this many steps.
MaxTicks == 5

\* Math.ceil(retentionMs / 1000), the expirationTtl of the KV store's put, in
\* seconds.
ExpirationTtl(retentionMs) == (retentionMs + 999) \div 1000

\* When an email whose write takes effect at time t stops being returned.
\* storeEmail of D1 binds expires_at = Date.now() + retentionMs, t being the
\* Date.now() of the call; the KV store puts the key with expirationTtl, and
\* KV keeps a key for that many seconds from the put.
ExpiresAt(store, t) ==
    IF store = "kv" THEN t + 1000 * ExpirationTtl(RetentionMs)
    ELSE t + RetentionMs

\* v || null
OrNull(v) ==
    IF v \in {Null, Undefined} \/ v.val = <<>> THEN Null ELSE v

\* v || undefined
OrUndefined(v) ==
    IF v \in {Null, Undefined} \/ v.val = <<>> THEN Undefined ELSE v

\* The email stored under id, or NoEmail.
EmailOf(id) == IF id \in DOMAIN emails THEN emails[id] ELSE NoEmail

\* The Email object of a stored email: the row or the key's value without
\* its expiry time and, for a row, without its rowid, which no query
\* selects.
ObjectOf(row) == [f \in DOMAIN row \ {"expiresAt", "rowid"} |-> row[f]]

\* The rowid SQLite gives to the row of an INSERT into the table emails,
\* whose primary key is the text id: one more than the largest rowid of the
\* table, and 1 in the empty table.
InsertRowId ==
    IF DOMAIN emails = {} THEN 1
    ELSE 1 + (CHOOSE m \in {emails[i].rowid : i \in DOMAIN emails} :
                 \A i \in DOMAIN emails : emails[i].rowid <= m)

\* The row the INSERT of D1 storeEmail writes for the email under rowid:
\* from_name and body_html are email.fromName || null and email.bodyHtml ||
\* null.
RowOf(email, expiresAt, rowid) ==
    [expiresAt |-> expiresAt, rowid |-> rowid]
        @@ [email EXCEPT !.fromName = OrNull(@), !.html = OrNull(@)]

\* What kv.put(`email:${id}`, JSON.stringify(email), { expirationTtl }) holds
\* when it takes effect at time t.
KeyOf(email, t) == [expiresAt |-> ExpiresAt("kv", t)] @@ email

\* store.getEmail(id), its read taking effect now.  D1 selects the row WHERE
\* id = ? AND expires_at > ?, bound to the Date.now() of the call (at), and
\* returns from_name || undefined and body_html || undefined; KV gets the
\* key, which is gone once it has expired.
getEmail(id, at) ==
    IF id \notin DOMAIN emails THEN Null
    ELSE IF backend = "kv"
    THEN IF emails[id].expiresAt > now THEN ObjectOf(emails[id]) ELSE Null
    ELSE IF emails[id].expiresAt > at
    THEN [ObjectOf(emails[id]) EXCEPT !.fromName = OrUndefined(@),
                                      !.html = OrUndefined(@)]
    ELSE Null

-----------------------------------------------------------------------------
(* The state machine.                                                      *)

\* A variant of TooLarge: no size limit.
TooLarge_Never(rawEmail) == FALSE

\* rawEmail.length > 1024 * 1024
TooLarge(rawEmail) == Len(rawEmail) > MaxEmailSize

\* The Email record handleEmail and handleInternalEmail build at time t from
\* the message [from, to, raw] and hand to store.storeEmail; the id of
\* generateId() is one no other email has.
Email(id, mailboxName, toAddress, msg, t) ==
    LET Build(addr, body) ==
            [id |-> id, mailboxName |-> mailboxName, from |-> addr.email,
             fromName |-> addr.name, to |-> toAddress,
             subject |-> SubjectOf(msg.raw),
             text |-> body.text, html |-> body.html,
             receivedAt |-> t, read |-> FALSE, size |-> Len(msg.raw)]
    IN  Build(parseEmailAddress(msg.from), parseMimeContent(msg.raw))

\* The requests the worker can be serving at a time.
Procs == {"p1", "p2"}

\* A request slot that serves nothing.
Idle == [pc |-> "idle"]

\* kv.get of a key that was never put, or has expired: null.
NoRate == [none |-> TRUE]

\* No request to the protected endpoints yet.
NoRequest == [none |-> TRUE]

\* No request is being served.
Quiet == \A p \in Procs : procs[p] = Idle

\* The worker takes a request in its first free slot.
Starts(p) ==
    /\ procs[p] = Idle
    /\ p = "p2" => procs["p1"] # Idle

\* The request of slot p waits for the store operation op.
Await(p, op) ==
    /\ resp' = resp
    /\ procs' = [procs EXCEPT ![p] = op]

\* The handler of slot p returns without an answer of the API.
Return(p) ==
    /\ resp' = resp
    /\ procs' = [procs EXCEPT ![p] = Idle]

\* The request of slot p is answered with r.
Answer(p, r) ==
    /\ resp' = r
    /\ procs' = [procs EXCEPT ![p] = Idle]

Fresh ==
    /\ codeLastIndex = [k \in 1..NumCodePatterns |-> 0]
    /\ linkLastIndex = [k \in 1..NumLinkPatterns |-> 0]

\* Time passes.
Tick ==
    /\ now < MaxTicks * TickMs
    /\ now' = now + TickMs
    /\ UNCHANGED <<codeLastIndex, linkLastIndex, resp, inbound, backend>>
    /\ UNCHANGED serviceVars

-----------------------------------------------------------------------------
(* The service: mailboxes, tokens and the rate limit of POST /mailboxes.   *)

\* env.EMAIL_DOMAIN
EmailDomain == <<109, 46, 97, 105>>   \* "m.ai"

\* `${name}@${domain}`
AddressOf(name, domain) == name \o <<64>> \o domain

\* [a-z0-9_-]
NameChars == (97..122) \cup (48..57) \cup {95, 45}

\* /^[a-z0-9_-]{3,30}$/.test(name)
isValidName(name) ==
    /\ Len(name) >= 3
    /\ Len(name) <= 30
    /\ \A k \in 1..Len(name) : name[k] \in NameChars

\* Two of the names generateEmailName returns, `${adj}-${noun}-${num}`.
GeneratedNames ==
    {<<115, 119, 105, 102, 116, 45, 99, 111, 114, 97, 108, 45, 48>>,   \* "swift-coral-0"
     <<98, 111, 108, 100, 45, 101, 99, 104, 111, 45, 55>>}             \* "bold-echo-7"

\* The decimal digits of k < 100, two of them.
TwoDigits(k) == <<48 + (k \div 10), 48 + (k % 10)>>

\* generateToken() of the k-th POST /mailboxes: a token no other request
\* draws, "t" and the digits of k.
generateToken(k) == <<116>> \o TwoDigits(k)

\* hashToken(token): a digest of the token; no two tokens share one.
hashToken(token) == <<35>> \o token

\* store.nameExists(name): KV gets the key mailbox:{name}, D1 selects the
\* row of the name.
nameExists(name) == name \in DOMAIN mailboxes

\* store.getMailboxByName(name)
getMailboxByName(name) ==
    IF name \in DOMAIN mailboxes THEN mailboxes[name] ELSE Null

\* store.getMailboxByToken(tokenHash) of D1: the first row with the hash.
getMailboxByToken(tokenHash) ==
    IF \E n \in DOMAIN mailboxes : mailboxes[n].tokenHash = tokenHash
    THEN mailboxes[CHOOSE n \in DOMAIN mailboxes :
                       mailboxes[n].tokenHash = tokenHash]
    ELSE Null

\* The Mailbox record store.createMailbox builds at time t.
createMailbox(name, tokenHash, t) ==
    [name |-> name, email |-> AddressOf(name, EmailDomain),
     tokenHash |-> tokenHash, createdAt |-> t, lastActivity |-> t]

\* checkRateLimit(kv, ip, 'register', 60, 60 * 60 * 1000)
RegisterLimit == 60
RegisterWindowMs == 3600000

\* const count = data ? parseInt(data, 10) : 0, data being kv.get(key)
RateCount(t) ==
    IF rate = NoRate \/ rate.expiresAt <= t THEN 0 ELSE rate.count

\* kv.put(key, String(count + 1), { expirationTtl: windowSec })
RatePut(count, t) ==
    [count |-> count + 1,
     expiresAt |-> t + 1000 * ExpirationTtl(RegisterWindowMs)]

\* The worker takes no more POST /mailboxes than this.
MaxPosts == 63

\* POST /mailboxes with body.name = name (Undefined when the body has none)
\* and, if bypass, the test token: handleCreateMailbox to kv.get of
\* checkRateLimit.  With count >= limit the counter is not put: the request
\* is answered 429, or, with the test token, goes on to read its body.
\* Otherwise the counter is put next.
CreateMailboxLimit(p, name, bypass) ==
    /\ Starts(p)
    /\ history.posts < MaxPosts
    /\ history' = [history EXCEPT !.posts = @ + 1]
    /\ \E count \in {RateCount(now)} :
          IF count >= RegisterLimit
          THEN IF bypass
               THEN Await(p, [pc |-> "body", name |-> name, bypass |-> bypass,
                              post |-> history.posts])
               ELSE Answer(p, [status |-> 429])
          ELSE Await(p, [pc |-> "count", name |-> name, bypass |-> bypass,
                         post |-> history.posts, count |-> count])
    /\ UNCHANGED <<codeLastIndex, linkLastIndex, inbound, now, backend, staging, request>>
    /\ UNCHANGED <<mailboxes, tokens, emails, lists, rate>>

\* kv.put of checkRateLimit takes effect: the counter is count + 1 for the
\* next hour.  The request is allowed and goes on to read its body.
CreateMailboxCount(p) ==
    /\ procs[p].pc = "count"
    /\ rate' = RatePut(procs[p].count, now)
    /\ Await(p, [pc |-> "body", name |-> procs[p].name,
                 bypass |-> procs[p].bypass, post |-> procs[p].post])
    /\ UNCHANGED <<codeLastIndex, linkLastIndex, inbound, now, backend, staging, request>>
    /\ UNCHANGED <<mailboxes, tokens, emails, lists, history>>

\* request.json() answers.  A custom name is validated (400) and looked up;
\* without one, or without a body that parses, generateUniqueName draws a
\* name and looks it up.
CreateMailboxBody(p) ==
    /\ procs[p].pc = "body"
    /\ \E name \in {procs[p].name} :
          IF name # Undefined /\ name.val # <<>>
          THEN IF ~isValidName(name.val) THEN Answer(p, [status |-> 400])
               ELSE Await(p, [pc |-> "name", name |-> name.val,
                              custom |-> TRUE, bypass |-> procs[p].bypass,
                              post |-> procs[p].post])
          ELSE \E n \in GeneratedNames :
                  Await(p, [pc |-> "name", name |-> n, custom |-> FALSE,
                            bypass |-> procs[p].bypass, post |-> procs[p].post])
    /\ UNCHANGED <<codeLastIndex, linkLastIndex, inbound, now, backend, staging, request>>
    /\ UNCHANGED <<mailboxes, tokens, emails, lists, rate, history>>

\* store.nameExists answers.  A custom name that exists is refused (409), a
\* generated one is drawn again; for a free name the token is generated and
\* handed to hashToken.
CreateMailboxName(p) ==
    /\ procs[p].pc = "name"
    /\ IF nameExists(procs[p].name)
       THEN IF procs[p].custom THEN Answer(p, [status |-> 409])
            ELSE \E n \in GeneratedNames :
                    Await(p, [procs[p] EXCEPT !.name = n])
       ELSE Await(p, [pc |-> "hash", name |-> procs[p].name,
                      token |-> generateToken(procs[p].post),
                      bypass |-> procs[p].bypass])
    /\ UNCHANGED <<codeLastIndex, linkLastIndex, inbound, now, backend, staging, request>>
    /\ UNCHANGED <<mailboxes, tokens, emails, lists, rate, history>>

\* hashToken answers: store.createMailbox builds the mailbox, at the time of
\* this step, and issues its first write.
CreateMailboxHash(p) ==
    /\ procs[p].pc = "hash"
    /\ Await(p, [pc |-> "store", token |-> procs[p].token,
                 bypass |-> procs[p].bypass,
                 mailbox |-> createMailbox(procs[p].name,
                                           hashToken(procs[p].token), now)])
    /\ UNCHANGED <<codeLastIndex, linkLastIndex, inbound, now, backend, staging, request>>
    /\ UNCHANGED <<mailboxes, tokens, emails, lists, rate, history>>

\* What is recorded of a 201 of POST /mailboxes for the properties.
Created(p) ==
    [email |-> procs[p].mailbox.email, token |-> procs[p].token,
     at |-> procs[p].mailbox.createdAt, bypass |-> procs[p].bypass]

\* handleCreateMailbox answers 201 with the address and the token.
CreateMailboxAnswer(p) ==
    /\ history' = [history EXCEPT !.created = @ \cup {Created(p)}]
    /\ Answer(p, [status |-> 201, email |-> procs[p].mailbox.email,
                  token |-> procs[p].token])

\* The first write of store.createMailbox takes effect.  D1 inserts the row,
\* and 201 is answered; the INSERT fails when the name is in the table
\* (UNIQUE), which the worker answers with 500.  KV puts the key
\* mailbox:{name}, whatever it held, and goes on to put the token.
CreateMailboxStore(p) ==
    /\ procs[p].pc = "store"
    /\ IF backend = "d1"
       THEN IF nameExists(procs[p].mailbox.name)
            THEN /\ Answer(p, [status |-> 500])
                 /\ UNCHANGED <<mailboxes, history>>
            ELSE /\ mailboxes' = (procs[p].mailbox.name :> procs[p].mailbox)
                                    @@ mailboxes
                 /\ CreateMailboxAnswer(p)
       ELSE /\ mailboxes' = (procs[p].mailbox.name :> procs[p].mailbox)
                               @@ mailboxes
            /\ Await(p, [procs[p] EXCEPT !.pc = "token"])
            /\ UNCHANGED history
    /\ UNCHANGED <<codeLastIndex, linkLastIndex, inbound, now, backend, staging, request>>
    /\ UNCHANGED <<tokens, emails, lists, rate>>

\* KV createMailbox: the put of the key token:{hash} takes effect.
CreateMailboxToken(p) ==
    /\ procs[p].pc = "token"
    /\ tokens' = (procs[p].mailbox.tokenHash :> procs[p].mailbox.name) @@ tokens
    /\ Await(p, [procs[p] EXCEPT !.pc = "emails"])
    /\ UNCHANGED <<codeLastIndex, linkLastIndex, inbound, now, backend, staging, request>>
    /\ UNCHANGED <<mailboxes, emails, lists, rate, history>>

\* KV createMailbox: the put of the empty list emails:{name} takes effect,
\* whatever the key held, and 201 is answered.
CreateMailboxList(p) ==
    /\ procs[p].pc = "emails"
    /\ lists' = (procs[p].mailbox.name :> <<>>) @@ lists
    /\ CreateMailboxAnswer(p)
    /\ UNCHANGED <<codeLastIndex, linkLastIndex, inbound, now, backend, staging, request>>
    /\ UNCHANGED <<mailboxes, tokens, emails, rate>>

\* The steps of POST /mailboxes after its first.
CreateMailboxSteps(p) ==
    \/ CreateMailboxCount(p)
    \/ CreateMailboxBody(p)
    \/ CreateMailboxName(p)
    \/ CreateMailboxHash(p)
    \/ CreateMailboxStore(p)
    \/ CreateMailboxToken(p)
    \/ CreateMailboxList(p)

\* The name the k-th client asks for: "box" and the digits of k.
NameOf(k) == <<98, 111, 120>> \o TwoDigits(k)

\* The POST /mailboxes requests of the hour that were served one after the
\* other before the requests that are followed step by step.
Served == 58

\* The mailbox that createMailbox stores for the k-th request at time t.
MailboxOf(k, t) == createMailbox(NameOf(k), hashToken(generateToken(k)), t)

\* What the store holds for an email that storeEmail has written at time t,
\* as the k-th row of the table of D1.
Stored(email, t, k) ==
    IF backend = "kv" THEN KeyOf(email, t)
    ELSE RowOf(email, ExpiresAt("d1", t), k)

\* const maxEmails = 100
MaxListed == 100

\* The list of the KV store for the mailbox name after the emails held were
\* stored one after the other, held[id] under the id: the ids of the
\* mailbox, the newest first, and no more than maxEmails.
ListAfter(name, held) ==
    LET Of(id) == held[id].mailboxName = name
        ids == SelectSeq([k \in 1..Len(held) |-> Len(held) + 1 - k], Of)
    IN  SubSeq(ids, 1, IF Len(ids) > MaxListed THEN MaxListed ELSE Len(ids))

\* The store after n POST /mailboxes requests at time 0, served one after
\* the other, the k-th under the name NameOf(k), and after the emails held
\* were delivered at time 0, one after the other; and what the requests
\* were answered.
Seeded(n, held) ==
    /\ mailboxes = [m \in {NameOf(k) : k \in 0..(n - 1)} |->
                       MailboxOf(CHOOSE k \in 0..(n - 1) : NameOf(k) = m, 0)]
    /\ tokens = IF backend = "d1" THEN <<>>
                ELSE [h \in {hashToken(generateToken(k)) : k \in 0..(n - 1)} |->
                         NameOf(CHOOSE k \in 0..(n - 1) :
                                    hashToken(generateToken(k)) = h)]
    /\ emails = [id \in 1..Len(held) |-> Stored(held[id], 0, id)]
    /\ lists = IF backend = "d1" THEN <<>>
               ELSE [m \in {NameOf(k) : k \in 0..(n - 1)} |-> ListAfter(m, held)]
    /\ rate = IF n = 0 THEN NoRate
              ELSE [count |-> n,
                    expiresAt |-> 1000 * ExpirationTtl(RegisterWindowMs)]
    /\ request = NoRequest
    /\ history = [created |-> {[email |-> AddressOf(NameOf(k), EmailDomain),
                                token |-> generateToken(k), at |-> 0,
                                bypass |-> FALSE] : k \in 0..(n - 1)},
                  posts |-> n, deleted |-> {}, forwarded |-> {},
                  arrived |-> Len(held),
                  stored |-> [id \in 1..Len(held) |-> 0]]

\* A fresh worker with either store after n POST /mailboxes requests and
\* the delivery of the emails held, no request being served.
Worker(n, held) ==
    /\ Fresh
    /\ backend \in {"d1", "kv"}
    /\ Seeded(n, held)
    /\ procs = [p \in Procs |-> Idle]
    /\ resp = NoResp
    /\ inbound = NoMessage
    /\ now = 0

-----------------------------------------------------------------------------
(* The service: the delivery of emails.                                    *)

\* env.STAGING_EMAIL_DOMAIN
StagingDomain == <<115, 46, 97, 105>>   \* "s.ai"

\* getLocalPart(email)
getLocalPart(email) ==
    LET atIndex == IndexOf(email, <<64>>)
    IN  IF atIndex > 0 THEN ToLowerCase(Substring(email, 0, atIndex))
        ELSE ToLowerCase(email)

\* toAddress.split('@')[1]
DomainOf(toAddress) ==
    LET parts == Split(toAddress, <<64>>)
    IN  IF Len(parts) >= 2 THEN Val(parts[2]) ELSE Undefined

\* The list of ids of the key emails:{name}: listData ? JSON.parse(listData) : []
ListOf(name) == IF name \in DOMAIN lists THEN lists[name] ELSE <<>>

\* emailIds.unshift(id); if (emailIds.length > maxEmails) emailIds.splice(maxEmails)
Unshift(list, id) ==
    SubSeq(<<id>> \o list, 1,
           IF Len(list) + 1 > MaxListed THEN MaxListed ELSE Len(list) + 1)

\* The mail system delivers no more emails than this.
MaxArrivals == 2

\* What is recorded of a delivered message for the properties: its sender
\* and its size, and its raw text unless it is longer than MaxEmailSize.
Received(msg) ==
    IF Len(msg.raw) > MaxEmailSize
    THEN [from |-> msg.from, size |-> Len(msg.raw)]
    ELSE [from |-> msg.from, size |-> Len(msg.raw), raw |-> msg.raw]

\* The delivery without the check that the mailbox exists.
StoreArrival_AnyMailbox(p, msg, toAddress, mailboxName) ==
    IF TooLarge(msg.raw)
    THEN Return(p) /\ inbound' = Received(msg)
    ELSE \E email \in {Email(history.arrived + 1, mailboxName, toAddress,
                             msg, now)} :
            /\ inbound' = [email |-> email] @@ Received(msg)
            /\ Await(p, [pc |-> "storeEmail", email |-> email,
                         expiresAt |-> ExpiresAt("d1", now)])

\* handleEmail and handleInternalEmail once store.getMailboxByName has
\* answered, for the request of slot p: without a mailbox of the name, or
\* over the size limit, the message is dropped; otherwise it is parsed, the
\* Email record is built and store.storeEmail is called (D1 storeEmail
\* computes the expiry time before its INSERT).
StoreArrival(p, msg, toAddress, mailboxName) ==
    IF getMailboxByName(mailboxName) = Null \/ TooLarge(msg.raw)
    THEN Return(p) /\ inbound' = Received(msg)
    ELSE \E email \in {Email(history.arrived + 1, mailboxName, toAddress,
                             msg, now)} :
            /\ inbound' = [email |-> email] @@ Received(msg)
            /\ Await(p, [pc |-> "storeEmail", email |-> email,
                         expiresAt |-> ExpiresAt("d1", now)])

\* handleEmail for the message msg = [from, to, raw], served in slot p, to
\* store.getMailboxByName.  A message to the staging domain is forwarded to
\* the staging worker when one is bound, whether the forwarding succeeds
\* (ok) or not, and nothing else is done with it.
HandleEmail(p, msg) ==
    /\ Starts(p)
    /\ \E toAddress \in {ToLowerCase(msg.to)} :
          IF staging /\ DomainOf(toAddress) = Val(StagingDomain)
          THEN /\ \E ok \in BOOLEAN :
                     history' = [history EXCEPT
                                    !.arrived = @ + 1,
                                    !.forwarded = @ \cup {[to |-> msg.to, ok |-> ok]}]
               /\ UNCHANGED <<procs, resp, inbound>>
          ELSE /\ history' = [history EXCEPT !.arrived = @ + 1]
               /\ StoreArrival(p, msg, toAddress, getLocalPart(toAddress))
    /\ UNCHANGED <<codeLastIndex, linkLastIndex, now, backend, staging, request>>
    /\ UNCHANGED <<mailboxes, tokens, emails, lists, rate>>

\* POST /internal/email with X-Internal-Email: true: handleInternalEmail for
\* the message, served in slot p, to store.getMailboxByName.
HandleInternalEmail(p, msg) ==
    /\ Starts(p)
    /\ history' = [history EXCEPT !.arrived = @ + 1]
    /\ \E toAddress \in {ToLowerCase(msg.to)} :
          StoreArrival(p, msg, toAddress, getLocalPart(toAddress))
    /\ UNCHANGED <<codeLastIndex, linkLastIndex, now, backend, staging, request>>
    /\ UNCHANGED <<mailboxes, tokens, emails, lists, rate>>

\* The first write of store.storeEmail takes effect.  D1 inserts the row
\* and calls updateLastActivity, which binds Date.now(); KV puts the key
\* email:{id} with expirationTtl and gets the list of the mailbox.
StoreEmail(p) ==
    /\ procs[p].pc = "storeEmail"
    /\ \E email \in {procs[p].email} :
          IF backend = "d1"
          THEN /\ emails' = (email.id :> RowOf(email, procs[p].expiresAt,
                                                    InsertRowId))
                               @@ emails
               /\ Await(p, [pc |-> "activity", id |-> email.id,
                            name |-> email.mailboxName, at |-> now])
          ELSE /\ emails' = (email.id :> KeyOf(email, now)) @@ emails
               /\ Await(p, [pc |-> "listGet", id |-> email.id,
                            name |-> email.mailboxName])
    /\ history' = [history EXCEPT !.stored = (procs[p].email.id :> now) @@ @]
    /\ UNCHANGED <<codeLastIndex, linkLastIndex, inbound, now, backend, staging, request>>
    /\ UNCHANGED <<mailboxes, tokens, lists, rate>>

\* KV storeEmail: kv.get of the list answers, the id is put in front of the
\* ids read and the list is cut to maxEmails.
StoreEmailList(p) ==
    /\ procs[p].pc = "listGet"
    /\ Await(p, [pc |-> "list", id |-> procs[p].id, name |-> procs[p].name,
                 list |-> Unshift(ListOf(procs[p].name), procs[p].id)])
    /\ UNCHANGED <<codeLastIndex, linkLastIndex, inbound, now, backend, staging, request>>
    /\ UNCHANGED <<mailboxes, tokens, emails, lists, rate, history>>

\* KV storeEmail: kv.put of the list takes effect, and updateLastActivity
\* gets the mailbox.
EmailList(p) ==
    /\ procs[p].pc = "list"
    /\ lists' = (procs[p].name :> procs[p].list) @@ lists
    /\ Await(p, [pc |-> "mailbox", id |-> procs[p].id,
                 name |-> procs[p].name])
    /\ UNCHANGED <<codeLastIndex, linkLastIndex, inbound, now, backend, staging, request>>
    /\ UNCHANGED <<mailboxes, tokens, emails, rate, history>>

\* KV updateLastActivity: getMailboxByName answers; the mailbox it returns
\* gets lastActivity = Date.now() and is put next.
UpdateLastActivityGet(p) ==
    /\ procs[p].pc = "mailbox"
    /\ \E mailbox \in {getMailboxByName(procs[p].name)} :
          IF mailbox = Null THEN Return(p)
          ELSE Await(p, [pc |-> "activity", id |-> procs[p].id,
                         name |-> procs[p].name,
                         mailbox |-> [mailbox EXCEPT !.lastActivity = now]])
    /\ UNCHANGED <<codeLastIndex, linkLastIndex, inbound, now, backend, staging, request>>
    /\ UNCHANGED <<mailboxes, tokens, emails, lists, rate, history>>

\* The write of store.updateLastActivity takes effect, and storeEmail and
\* the email handler return.  D1 updates last_activity of the row of the
\* name; KV puts the mailbox it has read.
UpdateLastActivity(p) ==
    /\ procs[p].pc = "activity"
    /\ mailboxes' =
          IF backend = "kv"
          THEN (procs[p].name :> procs[p].mailbox) @@ mailboxes
          ELSE [n \in DOMAIN mailboxes |->
                   IF n = procs[p].name
                   THEN [mailboxes[n] EXCEPT !.lastActivity = procs[p].at]
                   ELSE mailboxes[n]]
    /\ Return(p)
    /\ UNCHANGED <<codeLastIndex, linkLastIndex, inbound, now, backend, staging, request>>
    /\ UNCHANGED <<tokens, emails, lists, rate, history>>

\* The steps of an email handler after its first.
StoreEmailSteps(p) ==
    \/ StoreEmail(p)
    \/ StoreEmailList(p)
    \/ EmailList(p)
    \/ UpdateLastActivityGet(p)
    \/ UpdateLastActivity(p)

\* NaN
NaN == [isNaN |-> TRUE]

\* The digits of radix 16.
HexChars == (48..57) \cup (65..70) \cup (97..102)

\* The value of a digit: '0'-'9', 'A'-'F' or 'a'-'f'.
DigitValue(c) ==
    IF c \in 48..57 THEN c - 48 ELSE IF c \in 65..70 THEN c - 55 ELSE c - 87

\* The number a string of digits of radix R denotes.
RECURSIVE DigitsValue(_, _)
DigitsValue(ds, R) ==
    IF ds = <<>> THEN 0
    ELSE R * DigitsValue(SubSeq(ds, 1, Len(ds) - 1), R) + DigitValue(ds[Len(ds)])

\* parseInt(s), without a radix: leading white space is skipped and a sign
\* is read; after the prefix 0x or 0X the radix is 16, otherwise 10; then
\* the longest run of digits of the radix is read, and the result is NaN
\* without a digit.  A number n is Val(n), so that it compares with NaN.
ParseInt(s) ==
    LET p == RunEnd(s, 0, WhiteSpaceChars)
        signed == p < Len(s) /\ At(s, p) \in {43, 45}
        q == IF signed THEN p + 1 ELSE p
        hex == q + 2 <= Len(s) /\ At(s, q) = 48 /\ At(s, q + 1) \in {88, 120}
        R == IF hex THEN 16 ELSE 10
        d == IF hex THEN q + 2 ELSE q
        e == RunEnd(s, d, IF hex THEN HexChars ELSE DigitChars)
        n == DigitsValue(Substring(s, d, e), R)
    IN  IF e = d THEN NaN
        ELSE IF signed /\ At(s, p) = 45 THEN Val(0 - n)
        ELSE Val(n)

\* Math.min(a, b)
MathMin(a, b) ==
    IF a = NaN \/ b = NaN THEN NaN ELSE IF a.val < b.val THEN a ELSE b


\* a + b
Plus(a, b) == IF a = NaN \/ b = NaN THEN NaN ELSE Val(a.val + b.val)

\* The index Array.prototype.slice makes of an argument, for length len.
SliceIndex(x, len) ==
    IF x = NaN THEN 0
    ELSE IF x.val < 0 THEN (IF len + x.val < 0 THEN 0 ELSE len + x.val)
    ELSE IF x.val > len THEN len ELSE x.val

\* list.slice(start, end)
Slice(list, start, end) ==
    SubSeq(list, SliceIndex(start, Len(list)) + 1, SliceIndex(end, Len(list)))

\* url.searchParams.get(name) || dflt
ParamOr(param, dflt) ==
    IF param = Null \/ param.val = <<>> THEN dflt ELSE param.val

\* The summary of an email: id, from, subject, receivedAt, read.
Summary(e) ==
    [id |-> e.id, from |-> e.from, subject |-> e.subject,
     receivedAt |-> e.receivedAt, read |-> e.read]

\* D1: the ids of the rows WHERE mailbox_name = ? AND expires_at > ?, the
\* time bound being at.
RowsOf(name, at) ==
    {id \in DOMAIN emails :
        emails[id].mailboxName = name /\ emails[id].expiresAt > at}

\* ORDER BY received_at DESC.  SQLite reads the rows from the index
\* idx_emails_received_at (mailbox_name, received_at DESC), whose entries
\* of one mailbox and one time are in the order of their rowids: rows of
\* one time come in the order of their insertion.
Ordered(ids) ==
    LET last == IF ids = {} THEN 0
                ELSE CHOOSE m \in ids : \A j \in ids : j <= m
        Among(i) == i \in ids
        Before(i, j) ==
            \/ emails[i].receivedAt > emails[j].receivedAt
            \/ /\ emails[i].receivedAt = emails[j].receivedAt
               /\ emails[i].rowid < emails[j].rowid
    IN  SortSeq(SelectSeq([k \in 1..last |-> k], Among), Before)

\* LIMIT ? OFFSET ? of SQLite: a negative limit is no limit, a negative
\* offset is 0.
LimitOffset(rows, limit, offset) ==
    LET from == IF offset < 0 THEN 0 ELSE offset
        to == IF limit < 0 \/ from + limit > Len(rows) THEN Len(rows)
              ELSE from + limit
    IN  SubSeq(rows, from + 1, to)

\* The query of D1 getEmailsByMailbox, its time bound being at: the
\* summaries of the rows of the mailbox, the newest first.  LIMIT 0 returns
\* no row and leaves the offset unread.
getEmailsByMailbox(name, limit, offset, at) ==
    LET Summaries(ids) == [k \in 1..Len(ids) |-> Summary(emails[ids[k]])]
    IN  IF limit.val = 0 THEN <<>>
        ELSE Summaries(LimitOffset(Ordered(RowsOf(name, at)),
                                   limit.val, offset.val))

\* SUM(size) over the emails ids: the number of elements of the bag that
\* holds each id as many times as its email has characters.
TotalSize(ids) ==
    BagCardinality([id \in {i \in ids : emails[i].size > 0} |->
                       emails[id].size])

\* The query of D1 getMailboxStats, its time bound being at: the rows of
\* the mailbox are counted.
getMailboxStats(name, at) ==
    [emailCount |-> Cardinality(RowsOf(name, at)),
     unreadCount |-> Cardinality({id \in RowsOf(name, at) : ~emails[id].read}),
     totalSize |-> TotalSize(RowsOf(name, at))]

\* "Bearer "
L_bearer == <<66, 101, 97, 114, 101, 114, 32>>

\* authenticate with a scheme matched in any case.
authenticate_AnyCase(auth) ==
    IF auth = Null \/ auth.val = <<>> \/ ~LitAt(auth.val, 0, L_bearer, TRUE)
    THEN [error |-> [status |-> 401]]
    ELSE [tokenHash |-> hashToken(SubstringFrom(auth.val, 7))]

\* authenticate(request, store) for the Authorization header auth (Null
\* without one), to store.getMailboxByToken: the error, or the hash of the
\* token that is looked up.
authenticate(auth) ==
    IF auth = Null \/ auth.val = <<>> \/ ~LitAt(auth.val, 0, L_bearer, FALSE)
    THEN [error |-> [status |-> 401]]
    ELSE [tokenHash |-> hashToken(SubstringFrom(auth.val, 7))]

\* Math.min(parseInt(url.searchParams.get('limit') || '20'), 100)
LimitCap == 100
LimitOf(param) == MathMin(ParseInt(ParamOr(param, <<50, 48>>)), Val(LimitCap))

\* parseInt(url.searchParams.get('offset') || '0')
OffsetOf(param) == ParseInt(ParamOr(param, <<48>>))

\* The limit of the getInbox that KV getStats calls.
StatsLimit == 1000

\* KV getInbox and getStats call kv.get of the list emails:{name}.  The
\* request of slot p is in one of three passes over the list: getInbox for
\* store.getEmailsByMailbox (1), the getInbox of getStats (2) and the loop
\* of getStats over the sizes (3).
InboxPass(p, req, pass) ==
    Await(p, [req EXCEPT !.pc = "inboxList", !.pass = pass])

\* handleGetInbox and handleGetStats answer 200: the summaries and the
\* counts, or the counts and the size.
InboxAnswer(p, req) ==
    IF req.route = "inbox"
    THEN Answer(p, [status |-> 200, data |-> req.data, unread |-> req.unread,
                    totalCount |-> req.total, limit |-> req.limit,
                    offset |-> req.offset, mailbox |-> req.name])
    ELSE Answer(p, [status |-> 200, unread |-> req.unread,
                    totalCount |-> req.total, totalSize |-> req.size,
                    mailbox |-> req.name])

\* A pass over the list has ended with the summaries valid of the emails
\* that were read, unread of them unread, and their sizes adding to size.
\* getInbox returns valid.slice(offset, offset + limit), and after the
\* getInbox of getStats the list is read once more for the sizes.
InboxPassEnd(p, req, valid, unread, size) ==
    IF req.pass = 1
    THEN InboxPass(p, [req EXCEPT
                          !.data = Slice(valid, req.offset,
                                         Plus(req.offset, req.limit))], 2)
    ELSE IF req.pass = 2
    THEN InboxPass(p, [req EXCEPT !.total = Len(valid), !.unread = unread], 3)
    ELSE InboxAnswer(p, [req EXCEPT !.size = size])

\* The process that waits for kv.get of the email of ids[i].
InboxScan(req, ids, i, valid, unread, size) ==
    [req EXCEPT !.pc = "scan"]
        @@ [ids |-> ids, i |-> i, valid |-> valid, seen |-> unread,
            sum |-> size]

\* The loops of getInbox and getStats after the emails before ids[i]: the
\* next email is read, or, after the last, getInbox puts the list of the ids
\* it has found an email for if that is shorter than the list it has read.
InboxLoop(p, req, ids, i, valid, unread, size) ==
    IF i <= Len(ids)
    THEN Await(p, InboxScan(req, ids, i, valid, unread, size))
    ELSE IF req.pass < 3 /\ Len(valid) # Len(ids)
    THEN Await(p, [InboxScan(req, ids, i, valid, unread, size)
                      EXCEPT !.pc = "prune"])
    ELSE InboxPassEnd(p, req, valid, unread, size)

\* The process of a KV request without the fields of its pass.
InboxOf(proc) ==
    [f \in DOMAIN proc \ {"ids", "i", "valid", "seen", "sum"} |-> proc[f]]

\* kv.get of the list answers in KV getInbox or getStats, and the first
\* email of the list is read.
GetInboxList(p) ==
    /\ procs[p].pc = "inboxList"
    /\ InboxLoop(p, procs[p], ListOf(procs[p].name), 1, <<>>, 0, 0)
    /\ UNCHANGED <<codeLastIndex, linkLastIndex, inbound, now, backend, staging, request>>
    /\ UNCHANGED <<mailboxes, tokens, emails, lists, rate, history>>

\* kv.get of an email answers in the loop of KV getInbox or getStats: an
\* email that is there is counted, and the loop goes on.
GetInboxScan(p) ==
    /\ procs[p].pc = "scan"
    /\ \E email \in {getEmail(procs[p].ids[procs[p].i], now)} :
          IF email = Null
          THEN InboxLoop(p, InboxOf(procs[p]), procs[p].ids, procs[p].i + 1,
                         procs[p].valid, procs[p].seen, procs[p].sum)
          ELSE InboxLoop(p, InboxOf(procs[p]), procs[p].ids, procs[p].i + 1,
                         Append(procs[p].valid, Summary(email)),
                         procs[p].seen + (IF email.read THEN 0 ELSE 1),
                         procs[p].sum + email.size)
    /\ UNCHANGED <<codeLastIndex, linkLastIndex, inbound, now, backend, staging, request>>
    /\ UNCHANGED <<mailboxes, tokens, emails, lists, rate, history>>

\* The kv.put of KV getInbox takes effect: the list holds the ids getInbox
\* has found an email for.
GetInboxPrune(p) ==
    /\ procs[p].pc = "prune"
    /\ lists' = (procs[p].name :>
                    [k \in 1..Len(procs[p].valid) |-> procs[p].valid[k].id])
                   @@ lists
    /\ InboxPassEnd(p, InboxOf(procs[p]), procs[p].valid, procs[p].seen,
                    procs[p].sum)
    /\ UNCHANGED <<codeLastIndex, linkLastIndex, inbound, now, backend, staging, request>>
    /\ UNCHANGED <<mailboxes, tokens, emails, rate, history>>

\* The query of D1 getEmailsByMailbox answers.  It fails when the limit is
\* NaN, and when the offset is NaN unless the limit is 0, which the worker
\* answers with 500; otherwise store.getMailboxStats is called.
GetInboxSelect(p) ==
    /\ procs[p].pc = "select"
    /\ IF procs[p].limit = NaN \/
          (procs[p].limit.val # 0 /\ procs[p].offset = NaN)
       THEN Answer(p, [status |-> 500])
       ELSE Await(p, [procs[p] EXCEPT
                         !.pc = "stats", !.at = now,
                         !.data = getEmailsByMailbox(procs[p].name,
                                     procs[p].limit, procs[p].offset,
                                     procs[p].at)])
    /\ UNCHANGED <<codeLastIndex, linkLastIndex, inbound, now, backend, staging, request>>
    /\ UNCHANGED <<mailboxes, tokens, emails, lists, rate, history>>

\* The query of D1 getMailboxStats answers, and handleGetInbox or
\* handleGetStats answers 200.
GetStatsSelect(p) ==
    /\ procs[p].pc = "stats"
    /\ \E stats \in {getMailboxStats(procs[p].name, procs[p].at)} :
          InboxAnswer(p, [procs[p] EXCEPT !.total = stats.emailCount,
                                          !.unread = stats.unreadCount,
                                          !.size = stats.totalSize])
    /\ UNCHANGED <<codeLastIndex, linkLastIndex, inbound, now, backend, staging, request>>
    /\ UNCHANGED <<mailboxes, tokens, emails, lists, rate, history>>

\* handleGetEmail after store.markEmailRead, for the email that its
\* store.getEmail returned: extractData runs and 200 carries the email, the
\* code and the links.
GetEmailAnswer(p, email) ==
    \E r \in {extractData(email.text, email.html, codeLastIndex, linkLastIndex)} :
       /\ Answer(p, [status |-> 200, id |-> email.id,
                     mailbox |-> email.mailboxName,
                     from |-> email.from, fromName |-> email.fromName,
                     to |-> email.to, subject |-> email.subject,
                     text |-> email.text, html |-> email.html,
                     receivedAt |-> email.receivedAt, size |-> email.size,
                     code |-> r.code, links |-> r.links])
       /\ codeLastIndex' = r.codeLastIndex
       /\ linkLastIndex' = r.linkLastIndex

\* A variant of GetEmailRead: the mailbox of the email is not compared.
GetEmailRead_AnyMailbox(p) ==
    /\ procs[p].pc = "getEmail"
    /\ \E email \in {getEmail(procs[p].id, procs[p].at)} :
          IF email = Null
          THEN Answer(p, NotFound)
          ELSE Await(p, [pc |-> IF backend = "kv" THEN "marking" ELSE "mark",
                         id |-> procs[p].id, name |-> procs[p].name,
                         email |-> email])
    /\ UNCHANGED <<codeLastIndex, linkLastIndex, inbound, now, backend, staging, request>>
    /\ UNCHANGED <<mailboxes, tokens, emails, lists, rate, history>>

\* store.getEmail answers in handleGetEmail: 404 unless it returns an email
\* of the mailbox; otherwise store.markEmailRead is called, which on KV gets
\* the email again.
GetEmailRead(p) ==
    /\ procs[p].pc = "getEmail"
    /\ \E email \in {getEmail(procs[p].id, procs[p].at)} :
          IF email = Null \/ email.mailboxName # procs[p].name
          THEN Answer(p, NotFound)
          ELSE Await(p, [pc |-> IF backend = "kv" THEN "marking" ELSE "mark",
                         id |-> procs[p].id, name |-> procs[p].name,
                         email |-> email])
    /\ UNCHANGED <<codeLastIndex, linkLastIndex, inbound, now, backend, staging, request>>
    /\ UNCHANGED <<mailboxes, tokens, emails, lists, rate, history>>

\* KV markEmailRead: getEmail answers.  The email it returns is put next
\* with read set; without one nothing is written and handleGetEmail
\* answers.
MarkEmailReadGet(p) ==
    /\ procs[p].pc = "marking"
    /\ \E email \in {getEmail(procs[p].id, now)} :
          IF email = Null
          THEN GetEmailAnswer(p, procs[p].email)
          ELSE /\ Await(p, [pc |-> "mark", id |-> procs[p].id,
                            name |-> procs[p].name,
                            email |-> procs[p].email,
                            marked |-> [email EXCEPT !.read = TRUE]])
               /\ UNCHANGED <<codeLastIndex, linkLastIndex>>
    /\ UNCHANGED <<inbound, now, backend, staging, request>>
    /\ UNCHANGED <<mailboxes, tokens, emails, lists, rate, history>>

\* The write of store.markEmailRead takes effect, and handleGetEmail
\* answers.  D1 updates the row of the id, if there is one; KV puts the
\* email it has read, with read set and expirationTtl.
GetEmailMark(p) ==
    /\ procs[p].pc = "mark"
    /\ emails' = IF backend = "kv"
                 THEN (procs[p].id :> KeyOf(procs[p].marked, now)) @@ emails
                 ELSE IF procs[p].id \in DOMAIN emails
                 THEN [emails EXCEPT ![procs[p].id].read = TRUE]
                 ELSE emails
    /\ GetEmailAnswer(p, procs[p].email)
    /\ UNCHANGED <<inbound, now, backend, staging, request>>
    /\ UNCHANGED <<mailboxes, tokens, lists, rate, history>>

\* The emails without the one of id.
Without(id) == [i \in DOMAIN emails \ {id} |-> emails[i]]

\* handleDeleteEmail answers 204.
DeleteEmailAnswer(p) ==
    /\ history' = [history EXCEPT !.deleted = @ \cup {procs[p].id}]
    /\ Answer(p, [status |-> 204])

\* The first operation of store.deleteEmail answers.  D1 deletes the row of
\* the id and the mailbox, and 204 is answered if there was one, 404
\* otherwise.  KV getEmail answers: 404 unless it returns an email of the
\* mailbox, whose key is deleted next.
DeleteEmail(p) ==
    /\ procs[p].pc = "delete"
    /\ IF backend = "kv"
       THEN /\ \E email \in {getEmail(procs[p].id, now)} :
                  IF email = Null \/ email.mailboxName # procs[p].name
                  THEN Answer(p, NotFound)
                  ELSE Await(p, [procs[p] EXCEPT !.pc = "key"])
            /\ UNCHANGED <<emails, history>>
       ELSE IF procs[p].id \in DOMAIN emails /\
               emails[procs[p].id].mailboxName = procs[p].name
       THEN emails' = Without(procs[p].id) /\ DeleteEmailAnswer(p)
       ELSE Answer(p, NotFound) /\ UNCHANGED <<emails, history>>
    /\ UNCHANGED <<codeLastIndex, linkLastIndex, inbound, now, backend, staging, request>>
    /\ UNCHANGED <<mailboxes, tokens, lists, rate>>

\* KV deleteEmail: kv.delete of the key email:{id} takes effect, and the
\* list is read.
DeleteEmailKey(p) ==
    /\ procs[p].pc = "key"
    /\ emails' = Without(procs[p].id)
    /\ Await(p, [procs[p] EXCEPT !.pc = "unlisting"])
    /\ UNCHANGED <<codeLastIndex, linkLastIndex, inbound, now, backend, staging, request>>
    /\ UNCHANGED <<mailboxes, tokens, lists, rate, history>>

\* KV deleteEmail: kv.get of the list answers.  The list it returns is put
\* next without the id; without a list 204 is answered.
DeleteEmailList(p) ==
    /\ procs[p].pc = "unlisting"
    /\ IF procs[p].name \in DOMAIN lists
       THEN /\ Await(p, [pc |-> "unlist", id |-> procs[p].id,
                         name |-> procs[p].name,
                         list |-> LET Other(i) == i # procs[p].id
                                  IN  SelectSeq(lists[procs[p].name], Other)])
            /\ UNCHANGED history
       ELSE DeleteEmailAnswer(p)
    /\ UNCHANGED <<codeLastIndex, linkLastIndex, inbound, now, backend, staging, request>>
    /\ UNCHANGED <<mailboxes, tokens, emails, lists, rate>>

\* KV deleteEmail: kv.put of the list takes effect, and handleDeleteEmail
\* answers 204.
DeleteEmailUnlist(p) ==
    /\ procs[p].pc = "unlist"
    /\ lists' = (procs[p].name :> procs[p].list) @@ lists
    /\ DeleteEmailAnswer(p)
    /\ UNCHANGED <<codeLastIndex, linkLastIndex, inbound, now, backend, staging, request>>
    /\ UNCHANGED <<mailboxes, tokens, emails, rate>>

\* handleApi once authenticate has returned the mailbox, to the first store
\* operation of the handler of the request, 404 when no route takes it.
Route(p, req, mailbox) ==
    LET Inbox(route, limit, offset) ==
            [pc |-> IF backend = "kv" THEN "inboxList"
                    ELSE IF route = "inbox" THEN "select" ELSE "stats",
             route |-> route, name |-> mailbox.name,
             pass |-> IF route = "inbox" THEN 1 ELSE 2,
             limit |-> limit, offset |-> offset, at |-> now,
             data |-> <<>>, total |-> 0, unread |-> 0, size |-> 0]
    IN  IF req.route = "inbox" /\ req.method = "GET"
        THEN Await(p, Inbox("inbox", LimitOf(req.limit), OffsetOf(req.offset)))
        ELSE IF req.route = "email" /\ req.method = "GET"
        THEN Await(p, [pc |-> "getEmail", id |-> req.id,
                       name |-> mailbox.name, at |-> now])
        ELSE IF req.route = "email" /\ req.method = "DELETE"
        THEN Await(p, [pc |-> "delete", id |-> req.id, name |-> mailbox.name])
        ELSE IF req.route = "stats" /\ req.method = "GET"
        THEN Await(p, Inbox("stats", Val(StatsLimit), Val(0)))
        ELSE Answer(p, NotFound)

\* The mailbox whose owner the Authorization header auth names, Null without
\* one: the mailbox store.getMailboxByToken finds for the hash of its token.
OwnerOf(auth) ==
    IF "error" \in DOMAIN authenticate(auth) THEN Null
    ELSE IF backend = "d1"
    THEN getMailboxByToken(authenticate(auth).tokenHash)
    ELSE IF authenticate(auth).tokenHash \in DOMAIN tokens
    THEN getMailboxByName(tokens[authenticate(auth).tokenHash])
    ELSE Null

\* What is recorded of a request for the properties: its method and route,
\* the id of a request for an email and whether the store held the email,
\* and the mailbox of the owner the request names, or Null.
Taken(req) ==
    [method |-> req.method, route |-> req.route, auth |-> req.auth,
     id |-> IF req.route = "email" THEN req.id ELSE 0,
     held |-> req.route = "email" /\ getEmail(req.id, now) # Null,
     owner |-> IF OwnerOf(req.auth) = Null THEN Null
               ELSE Val(OwnerOf(req.auth).name)]

\* handleApi for the request req = [method, route, id, auth, limit, offset],
\* served in slot p, to the answer of store.getMailboxByToken: OPTIONS is
\* answered at once, and a request without a Bearer token 401.  D1 selects
\* the mailbox of the hash, and the request is routed, or answered 401
\* without one; KV gets the name under the key token:{hash} (401 without
\* one) and then the mailbox of the name.
ApiRequest(p, req) ==
    /\ Starts(p)
    /\ request' = Taken(req)
    /\ IF req.method = "OPTIONS"
       THEN Answer(p, [status |-> 200])
       ELSE \E a \in {authenticate(req.auth)} :
               IF "error" \in DOMAIN a
               THEN Answer(p, a.error)
               ELSE IF backend = "d1"
               THEN \E mailbox \in {getMailboxByToken(a.tokenHash)} :
                       IF mailbox = Null THEN Answer(p, [status |-> 401])
                       ELSE Route(p, req, mailbox)
               ELSE IF a.tokenHash \notin DOMAIN tokens
               THEN Answer(p, [status |-> 401])
               ELSE Await(p, [pc |-> "auth", req |-> req,
                              name |-> tokens[a.tokenHash]])
    /\ UNCHANGED <<codeLastIndex, linkLastIndex, inbound, now, backend, staging>>
    /\ UNCHANGED <<mailboxes, tokens, emails, lists, rate, history>>

\* KV getMailboxByToken: kv.get of the mailbox of the name answers, and the
\* request is routed, or answered 401 without a mailbox.
AuthMailbox(p) ==
    /\ procs[p].pc = "auth"
    /\ \E mailbox \in {getMailboxByName(procs[p].name)} :
          IF mailbox = Null THEN Answer(p, [status |-> 401])
          ELSE Route(p, procs[p].req, mailbox)
    /\ UNCHANGED <<codeLastIndex, linkLastIndex, inbound, now, backend, staging, request>>
    /\ UNCHANGED <<mailboxes, tokens, emails, lists, rate, history>>

\* The steps of GET /inbox and GET /stats after authenticate, but for the
\* kv.put of KV getInbox.
InboxSteps(p) ==
    \/ GetInboxList(p)
    \/ GetInboxScan(p)
    \/ GetInboxSelect(p)
    \/ GetStatsSelect(p)

\* The steps of GET /emails/{id} after authenticate.
GetEmailSteps(p) ==
    \/ GetEmailRead(p)
    \/ MarkEmailReadGet(p)
    \/ GetEmailMark(p)

\* The steps of DELETE /emails/{id} after authenticate.
DeleteEmailSteps(p) ==
    \/ DeleteEmail(p)
    \/ DeleteEmailKey(p)
    \/ DeleteEmailList(p)
    \/ DeleteEmailUnlist(p)

\* A scheduled handler with a cleanupExpired that also deletes the
\* mailboxes without activity since the retention time.
Cleanup_WithMailboxes(p) ==
    /\ procs[p].pc = "cleanup"
    /\ emails' = [i \in {id \in DOMAIN emails :
                            emails[id].expiresAt > procs[p].at} |-> emails[i]]
    /\ mailboxes' = [n \in {name \in DOMAIN mailboxes :
                               mailboxes[name].lastActivity + RetentionMs
                                   > procs[p].at} |->
                        mailboxes[n]]
    /\ Return(p)
    /\ UNCHANGED <<codeLastIndex, linkLastIndex, inbound, now, backend, staging, request>>
    /\ UNCHANGED <<tokens, lists, rate, history>>

\* The DELETE of cleanupExpired takes effect: the rows with expires_at <=
\* the time of the call are deleted, and no mailbox.
Cleanup(p) ==
    /\ procs[p].pc = "cleanup"
    /\ emails' = [i \in {id \in DOMAIN emails :
                            emails[id].expiresAt > procs[p].at} |-> emails[i]]
    /\ Return(p)
    /\ UNCHANGED <<codeLastIndex, linkLastIndex, inbound, now, backend, staging, request>>
    /\ UNCHANGED <<mailboxes, tokens, lists, rate, history>>

\* The scheduled handler, served in slot p: with a D1 database bound,
\* cleanupExpired of the D1 store is called, which takes the time; without
\* one, as where the KV store is deployed, the cleanup is skipped.
Scheduled(p) ==
    /\ Starts(p)
    /\ IF backend = "d1"
       THEN Await(p, [pc |-> "cleanup", at |-> now])
       ELSE Return(p)
    /\ UNCHANGED <<codeLastIndex, linkLastIndex, inbound, now, backend, staging, request>>
    /\ UNCHANGED <<mailboxes, tokens, emails, lists, rate, history>>

-----------------------------------------------------------------------------
(* The worker with one mailbox.                                            *)

\* The address of the first mailbox.
Recipient == AddressOf(NameOf(0), EmailDomain)

\* The message with the raw text raw, from Sender to the first mailbox.
From(raw) == [from |-> Sender, to |-> Recipient, raw |-> raw]

\* The messages delivered in SpecIngest: every raw message from Sender, and
\* one raw message from every sender.
Deliveries ==
    {From(raw) : raw \in IngestMessages}
        \cup {[from |-> f, to |-> Recipient,
               raw |-> <<72, 101, 108, 108, 111, 32, 112, 108, 97, 105, 110, 32, 98, 111, 100, 121>>] : f \in Senders}   \* "Hello plain body"

\* A message of exactly the size limit and one that is one code unit longer.
BigDeliveries ==
    {From(BigMessage(MaxEmailSize)), From(BigMessage(MaxEmailSize + 1))}

\* The Authorization header of the owner of the k-th mailbox.
BearerOf(k) == Val(L_bearer \o generateToken(k))

\* The requests of the owner of the first mailbox for its first email.
MailRequests ==
    [method : {"GET", "DELETE"}, route : {"email"}, id : {1},
     auth : {BearerOf(0)}, limit : {Null}, offset : {Null}]

\* GET /emails/{id} of the owner of the first mailbox for its first email.
ReadRequest ==
    [method |-> "GET", route |-> "email", id |-> 1, auth |-> BearerOf(0),
     limit |-> Null, offset |-> Null]

\* A fresh worker with one mailbox and no email.
Init == Worker(1, <<>>) /\ staging = FALSE

\* The steps of store.storeEmail, of GET /emails/{id} and of DELETE
\* /emails/{id} after the first of the request.
MailSteps(p) ==
    \/ StoreEmailSteps(p)
    \/ AuthMailbox(p)
    \/ GetEmailSteps(p)
    \/ DeleteEmailSteps(p)

\* One email arrives, and its owner reads and deletes it, request after
\* request.
Next ==
    \/ \E p \in Procs, raw \in RawMessages :
          Quiet /\ history.arrived = 0 /\ HandleEmail(p, From(raw))
    \/ \E p \in Procs, req \in MailRequests : Quiet /\ ApiRequest(p, req)
    \/ \E p \in Procs : MailSteps(p)

\* A worker that lives on from request to request: the RegExp objects of the
\* module keep their lastIndex.
Spec == Init /\ [][Next]_vars

\* The first GET /emails/{id} a fresh worker with the D1 store serves, for
\* any email that was delivered to the mailbox at time 0.
InitFirstCall ==
    /\ \E raw \in AllMessages :
          Worker(1, <<Email(1, NameOf(0), Recipient, From(raw), 0)>>)
    /\ backend = "d1"
    /\ staging = FALSE

NextFirstCall ==
    \/ \E p \in Procs : resp = NoResp /\ ApiRequest(p, ReadRequest)
    \/ \E p \in Procs : GetEmailRead(p)
    \/ \E p \in Procs : GetEmailMark(p)

SpecFirstCall == InitFirstCall /\ [][NextFirstCall]_vars

\* The email handlers of the production worker and of the staging worker, on
\* an empty mailbox, for every message of Deliveries, and the reading of the
\* stored email.
NextIngest ==
    \/ \E p \in Procs, msg \in Deliveries :
          history.arrived = 0 /\ HandleEmail(p, msg)
    \/ \E p \in Procs, msg \in Deliveries :
          history.arrived = 0 /\ HandleInternalEmail(p, msg)
    \/ \E p \in Procs : StoreEmailSteps(p)
    \/ \E p \in Procs : Quiet /\ resp = NoResp /\ ApiRequest(p, ReadRequest)
    \/ \E p \in Procs : AuthMailbox(p)
    \/ \E p \in Procs : GetEmailSteps(p)

SpecIngest == Init /\ [][NextIngest]_vars

\* The same with the messages at and over the size limit, without the
\* reading.
NextSizeLimit ==
    \/ \E p \in Procs, msg \in Deliveries \cup BigDeliveries :
          history.arrived = 0 /\ HandleEmail(p, msg)
    \/ \E p \in Procs, msg \in Deliveries \cup BigDeliveries :
          history.arrived = 0 /\ HandleInternalEmail(p, msg)
    \/ \E p \in Procs : StoreEmailSteps(p)

SpecSizeLimit == Init /\ [][NextSizeLimit]_vars

\* The requests of the owner of the first mailbox for its first email, its
\* inbox and its counts.
RetentionRequests ==
    {req \in [method : {"GET", "DELETE"}, route : {"email", "inbox", "stats"},
              id : {1}, auth : {BearerOf(0)}, limit : {Null},
              offset : {Null}] :
        req.method = "GET" \/ req.route = "email"}

\* One email arrives, and its owner reads it, lists it and deletes it,
\* request after request, while time passes and the scheduled handler runs.
NextRetention ==
    \/ \E p \in Procs, raw \in {EndToEndMessage, <<67, 111, 100, 101, 58, 32, 49, 50, 51, 52, 53, 54, 55, 56>>} :   \* "Code: 12345678"
          Quiet /\ history.arrived = 0 /\ HandleEmail(p, From(raw))
    \/ \E p \in Procs, req \in RetentionRequests : Quiet /\ ApiRequest(p, req)
    \/ \E p \in Procs : MailSteps(p)
    \/ \E p \in Procs : InboxSteps(p)
    \/ \E p \in Procs : GetInboxPrune(p)
    \/ \E p \in Procs : Quiet /\ Scheduled(p)
    \/ \E p \in Procs : Cleanup(p)
    \/ Tick

SpecRetention == Init /\ [][NextRetention]_vars

-----------------------------------------------------------------------------
(* The service: its clients.                                               *)

\* One client address that asks for one mailbox after the other, each under
\* a name of its own, within one hour: the store and the counter after the
\* first Served requests, from where two requests are served at a time.
InitRateLimit == Worker(Served, <<>>) /\ staging = FALSE

NextRateLimit ==
    \/ \E p \in Procs, bypass \in BOOLEAN :
          CreateMailboxLimit(p, Val(NameOf(history.posts)), bypass)
    \/ \E p \in Procs : CreateMailboxSteps(p)

SpecRateLimit == InitRateLimit /\ [][NextRateLimit]_vars

\* The names the clients ask for: a valid one, one with a capital letter, the
\* empty one, or none.
AskedNames ==
    {Val(<<97, 110, 110>>),   \* "ann"
     Val(<<65, 110, 110>>),   \* "Ann"
     Val(<<>>), Undefined}

\* The clients of SpecCreate send no more POST /mailboxes than this.
MaxCreates == 3

\* An empty store with either backend.
InitCreate == Worker(0, <<>>) /\ staging = FALSE

\* Clients that create mailboxes, under a name they ask for or a generated
\* one, two requests at a time.
NextCreate ==
    \/ \E p \in Procs, name \in AskedNames :
          /\ history.posts < MaxCreates
          /\ CreateMailboxLimit(p, name, FALSE)
    \/ \E p \in Procs : CreateMailboxSteps(p)

SpecCreate == InitCreate /\ [][NextCreate]_vars

\* A message for the address to.
MessageTo(to) ==
    [from |-> Sender, to |-> to,
     raw |-> <<72, 101, 108, 108, 111>>]   \* "Hello"

\* The messages for the second mailbox, its address written with a capital
\* letter.
OwnedArrivals ==
    {MessageTo(<<66>> \o SubstringFrom(AddressOf(NameOf(1), EmailDomain), 1))}

\* A message for the second mailbox at another domain, the address written
\* with capital letters of ASCII and of Greek: "BOX01@\u03A9\u03A3.AI".
ForeignArrivals ==
    {MessageTo(<<66, 79, 88, 48, 49, 64, 937, 931, 46, 65, 73>>)}

\* The messages for a mailbox that does not exist and for the staging domain.
OtherArrivals ==
    {MessageTo(AddressOf(NameOf(9), EmailDomain)),
     MessageTo(AddressOf(NameOf(0), StagingDomain))}

\* The Authorization headers of the owners of the two mailboxes.
OwnerHeaders == {BearerOf(0), BearerOf(1)}

\* The other Authorization headers: none, a token of no mailbox, no token,
\* and other schemes.
OtherHeaders ==
    {Null,
     BearerOf(9),
     Val(L_bearer),
     Val(<<98>> \o SubstringFrom(L_bearer, 1) \o generateToken(0)),   \* "bearer t00"
     Val(<<66, 97, 115, 105, 99, 32>> \o generateToken(0)),           \* "Basic t00"
     Val(generateToken(0))}

\* The email of the message msg, delivered to the second mailbox at time 0
\* under the id.
Owned(id, msg) ==
    Email(id, NameOf(1), ToLowerCase(msg.to), msg, 0)

\* The requests of the owners of the two mailboxes for the first email.
OwnerRequests ==
    [method : {"GET", "DELETE"}, route : {"email"}, id : {1},
     auth : OwnerHeaders, limit : {Null}, offset : {Null}]

\* A worker with either store and two mailboxes, the second holding one
\* email.
InitMail ==
    /\ \E msg \in OwnedArrivals : Worker(2, <<Owned(1, msg)>>)
    /\ staging = FALSE

\* The owners of the two mailboxes read and delete the email of the second,
\* two requests being served at a time.
NextMail ==
    \/ \E p \in Procs, req \in OwnerRequests : ApiRequest(p, req)
    \/ \E p \in Procs : AuthMailbox(p)
    \/ \E p \in Procs : GetEmailSteps(p)
    \/ \E p \in Procs : DeleteEmailSteps(p)

SpecMail == InitMail /\ [][NextMail]_vars

\* The requests of the owner of the second mailbox for its inbox, its counts
\* and its emails.
ListingRequests ==
    {req \in [method : {"GET"}, route : {"inbox", "stats", "email"},
              id : 1..MaxArrivals, auth : {BearerOf(1)},
              limit : {Null}, offset : {Null}] :
        req.route = "email" \/ req.id = 1}

\* A worker with either store and two mailboxes.
InitListing == Worker(2, <<>>) /\ staging = FALSE

\* Emails arrive for the second mailbox, two at a time, and its owner reads
\* the inbox, the counts and the emails, request after request.
NextListing ==
    \/ \E p \in Procs, msg \in OwnedArrivals :
          /\ \A q \in Procs : procs[q].pc \notin
                {"auth", "inboxList", "scan", "select", "stats", "getEmail",
                 "marking", "mark"}
          /\ history.arrived < MaxArrivals
          /\ HandleEmail(p, msg)
    \/ \E p \in Procs : StoreEmailSteps(p)
    \/ \E p \in Procs, req \in ListingRequests : Quiet /\ ApiRequest(p, req)
    \/ \E p \in Procs : AuthMailbox(p)
    \/ \E p \in Procs : InboxSteps(p)
    \/ \E p \in Procs : GetEmailSteps(p)

SpecListing == InitListing /\ [][NextListing]_vars

\* The requests to the protected endpoints and to a path of no endpoint,
\* with every Authorization header.
AllRequests ==
    {req \in [method : {"GET", "DELETE", "OPTIONS"},
              route : {"inbox", "email", "stats", "other"},
              id : {1}, auth : OwnerHeaders \cup OtherHeaders,
              limit : {Null}, offset : {Null}] : TRUE}

\* Requests come with every Authorization header, one after the other.
NextAuth ==
    \/ \E p \in Procs, req \in AllRequests : Quiet /\ ApiRequest(p, req)
    \/ \E p \in Procs : AuthMailbox(p)
    \/ \E p \in Procs : InboxSteps(p)
    \/ \E p \in Procs : GetEmailSteps(p)
    \/ \E p \in Procs : DeleteEmailSteps(p)

SpecAuth == InitMail /\ [][NextAuth]_vars

\* A worker with either store and two mailboxes, with or without a staging
\* worker.
InitDelivery == Worker(2, <<>>) /\ staging \in BOOLEAN

\* Emails arrive for a mailbox, for none and for the staging domain, from
\* the mail system and from the production worker, two at a time.
NextDelivery ==
    \/ \E p \in Procs, msg \in OwnedArrivals \cup ForeignArrivals \cup OtherArrivals :
          history.arrived < MaxArrivals /\ HandleEmail(p, msg)
    \/ \E p \in Procs, msg \in OwnedArrivals \cup ForeignArrivals \cup OtherArrivals :
          history.arrived < MaxArrivals /\ HandleInternalEmail(p, msg)
    \/ \E p \in Procs : StoreEmailSteps(p)

SpecDelivery == InitDelivery /\ [][NextDelivery]_vars

\* The requests of the owner of the second mailbox for its emails.
SweepRequests ==
    [method : {"GET", "DELETE"}, route : {"email"}, id : 1..MaxArrivals,
     auth : {BearerOf(1)}, limit : {Null}, offset : {Null}]

\* The worker of SpecSweep has no more mailboxes than this.
MaxMailboxes == 3

\* The operations of the worker on its store, one request after the other,
\* while time passes between them: a mailbox is created before the first email, emails
\* arrive, their owner reads and deletes them, and the scheduled handler
\* runs.
NextSweep ==
    \/ \E p \in Procs :
          /\ Quiet /\ now = 0 /\ history.arrived = 0
          /\ history.posts < MaxMailboxes
          /\ CreateMailboxLimit(p, Val(<<97, 110, 110>>), FALSE)
    \/ \E p \in Procs : CreateMailboxSteps(p)
    \/ \E p \in Procs, msg \in OwnedArrivals :
          Quiet /\ history.arrived < MaxArrivals /\ HandleEmail(p, msg)
    \/ \E p \in Procs, req \in SweepRequests : Quiet /\ ApiRequest(p, req)
    \/ \E p \in Procs : MailSteps(p)
    \/ \E p \in Procs : Quiet /\ Scheduled(p)
    \/ \E p \in Procs : Cleanup(p)
    \/ Quiet /\ Tick

SpecSweep == InitListing /\ [][NextSweep]_vars

\* The second mailbox holds one email more than the list of the KV store
\* keeps.
Delivered == MaxListed + 1

\* The values of the query parameter limit: none, "0", "-1", "abc", "5",
\* "150" and "0x1".
LimitValues ==
    {Null, Val(<<48>>), Val(<<45, 49>>), Val(<<97, 98, 99>>), Val(<<53>>),
     Val(<<49, 53, 48>>), Val(<<48, 120, 49>>)}

\* The values of the query parameter offset: none, "-1", "abc", "99" and
\* "0X63".
OffsetValues ==
    {Null, Val(<<45, 49>>), Val(<<97, 98, 99>>), Val(<<57, 57>>),
     Val(<<48, 88, 54, 51>>)}

\* The requests of the owner of the second mailbox for its inbox, its
\* counts and its oldest email.
InboxRequests ==
    {req \in [method : {"GET"}, route : {"inbox", "email", "stats"},
              id : {1}, auth : {BearerOf(1)},
              limit : LimitValues, offset : OffsetValues] :
        req.route = "inbox" \/ (req.limit = Null /\ req.offset = Null)}

\* A worker with either store and two mailboxes, after Delivered emails were
\* delivered to the second one after the other at time 0: the KV list holds
\* the MaxListed newest ids, the newest first.
InitInbox ==
    /\ \E msg \in OwnedArrivals :
          Worker(2, [id \in 1..Delivered |-> Owned(id, msg)])
    /\ staging = FALSE

\* The owner of the full mailbox reads its inbox page by page, its counts
\* and its oldest email, one request after the other.
NextInbox ==
    \/ \E p \in Procs, req \in InboxRequests :
          Quiet /\ resp = NoResp /\ ApiRequest(p, req)
    \/ \E p \in Procs : AuthMailbox(p)
    \/ \E p \in Procs : InboxSteps(p)
    \/ \E p \in Procs : GetEmailSteps(p)

SpecInbox == InitInbox /\ [][NextInbox]_vars

-----------------------------------------------------------------------------
(* Properties.                                                             *)

\* The Email record the email handler has built from the last message and
\* handed to store.storeEmail, or NoEmail.
stored == IF "email" \in DOMAIN inbound THEN inbound.email ELSE NoEmail

\* GET /emails/{id} was answered last, with the email and what extractData
\* has returned for it.
Returned == "code" \in DOMAIN resp

\* The content extractData has scanned for the email of the answer.
StoredContent == Content(resp.text, resp.html)

\* The email of the answer has the text body t and no html body.
StoredText(t) == Returned /\ resp.text = t /\ resp.html = Undefined

\* The step is the one in which handleGetEmail calls extractData and
\* answers.
Extracts ==
    \E p \in Procs :
        /\ procs[p].pc \in {"marking", "mark"}
        /\ procs'[p] = Idle
        /\ "code" \in DOMAIN resp'

\* C1: extractData called twice in a row with the same arguments returns the
\* same code and the same links both times: a GET of the stored email that
\* follows a GET of the same email gives the same answer.
C1_SameResultTwice ==
    [][(Returned /\ Extracts /\ resp'.id = resp.id
                 /\ resp'.text = resp.text /\ resp'.html = resp.html)
          => resp'.code = resp.code /\ resp'.links = resp.links]_vars

\* C2: a first call on 'Your code is 123456' returns the code '123456', and so
\* does a first call on the Chinese form (U+60A8 U+7684 U+9A8C U+8BC1 U+7801
\* U+FF1A '123456').
C2_DocumentedFormats ==
    (Returned /\ (StoredText(<<89, 111, 117, 114, 32, 99, 111, 100, 101, 32, 105, 115, 32, 49, 50, 51, 52, 53, 54>>)
                    \/ StoredText(<<24744, 30340, 39564, 35777, 30721, 65306, 49, 50, 51, 52, 53, 54>>)))
        => resp.code = Val(<<49, 50, 51, 52, 53, 54>>)

\* codePatterns[k] matches somewhere in s.
MatchesAnywhere(k, s) ==
    \E p \in 0..(Len(s) - 1) : CodePatternAt(k, s, p).matched

\* The position of the leftmost match of codePatterns[k] in s.
LeftmostAt(k, s) ==
    Min({p \in 0..(Len(s) - 1) : CodePatternAt(k, s, p).matched})

\* The digit group of the leftmost match of the first pattern, in list
\* order, that matches anywhere in s; Null if no pattern matches.
PriorityCode(s) ==
    LET ks == {k \in 1..NumCodePatterns : MatchesAnywhere(k, s)}
    IN  IF ks = {} THEN Null
        ELSE Val(CodePatternAt(Min(ks), s, LeftmostAt(Min(ks), s)).cap)

\* C3: on a call in which every pattern starts scanning at position 0, the
\* code returned is the digit group of the leftmost match of the first
\* pattern, in list order, that matches anywhere in the content; 'Primary
\* code: 111111, backup code: 222222' gives '111111'.
C3_FirstPatternWins ==
    [][(Fresh /\ Extracts) =>
          /\ resp'.code = PriorityCode(StoredContent')
          /\ StoredText(<<80, 114, 105, 109, 97, 114, 121, 32, 99, 111, 100, 101, 58, 32, 49, 49, 49, 49, 49, 49, 44, 32, 98, 97, 99, 107, 117, 112, 32, 99, 111, 100, 101, 58, 32, 50, 50, 50, 50, 50, 50>>)'
                => resp'.code = Val(<<49, 49, 49, 49, 49, 49>>)]_vars

\* C3's case: two patterns match, the match of the later pattern stands
\* earlier in the text, and the code of the earlier pattern was returned.
C3_Witness ==
    /\ Returned
    /\ \E k1, k2 \in 1..NumCodePatterns :
          /\ k1 < k2
          /\ \A k \in 1..(k1 - 1) : ~MatchesAnywhere(k, StoredContent)
          /\ MatchesAnywhere(k1, StoredContent)
          /\ MatchesAnywhere(k2, StoredContent)
          /\ LeftmostAt(k2, StoredContent) < LeftmostAt(k1, StoredContent)
          /\ resp.code = Val(CodePatternAt(k1, StoredContent,
                                 LeftmostAt(k1, StoredContent)).cap)
          /\ resp.code # Val(CodePatternAt(k2, StoredContent,
                                 LeftmostAt(k2, StoredContent)).cap)

\* C4: whenever extractData has returned, every pattern of codePatterns and
\* of linkPatterns has lastIndex 0.
C4_NoPositionSurvives == Returned => Fresh

\* C5: parseMimeContent returns the two bodies of the end-to-end message as
\* text and html, and extractData on them returns the code '123456' and the
\* one link 'https://example.com/verify?token=abc'.
C5_EndToEnd ==
    /\ parseMimeContent(EndToEndMessage)
          = [text |-> EndToEndText, html |-> Val(EndToEndHtml)]
    /\ (Returned /\ [text |-> resp.text, html |-> resp.html]
                        = parseMimeContent(EndToEndMessage))
          => [code |-> resp.code, links |-> resp.links]
                = [code |-> Val(<<49, 50, 51, 52, 53, 54>>),
                   links |-> Val(<<<<104, 116, 116, 112, 115, 58, 47, 47, 101, 120, 97, 109, 112, 108, 101, 46, 99, 111, 109, 47, 118, 101, 114, 105, 102, 121, 63, 116, 111, 107, 101, 110, 61, 97, 98, 99>>>>)]

\* The length of the maximal run of digits of s around position p.
DigitRunAround(s, p) ==
    RunEnd(s, p, DigitChars) - RunStart(s, p, DigitChars)

\* code stands in s as a part, or the whole, of a run of at most 8 digits.
OccursOutsideLongRun(code, s) ==
    \E p \in 0..(Len(s) - Len(code)) :
        /\ Substring(s, p, p + Len(code)) = code
        /\ DigitRunAround(s, p) <= 8

\* C6: a run of 9 or more digits does not match: a returned code is never a
\* part of such a run, and 'code: 123456789' gives null.
C6_NoCodeFromLongRun ==
    Returned =>
        /\ resp.code # Null => OccursOutsideLongRun(resp.code.val, StoredContent)
        /\ StoredText(<<99, 111, 100, 101, 58, 32, 49, 50, 51, 52, 53, 54, 55, 56, 57>>) => resp.code = Null

\* code is a string of 4 to 8 decimal digits that stands verbatim in s.
IsCodeOf(code, s) ==
    /\ Len(code) \in 4..8
    /\ \A i \in 1..Len(code) : IsDigit(code[i])
    /\ \E p \in 0..(Len(s) - Len(code)) : Substring(s, p, p + Len(code)) = code

\* C7: in every result of extractData, code is null or a string of 4 to 8
\* decimal digits taken verbatim from the content, so never 9 or more
\* digits; 'Error code: 123' gives null; a content whose runs of digits are
\* all shorter than 4 gives null; and 'Code: 12345678' gives '12345678'.
C7_CodeShape ==
    [][Extracts =>
          /\ resp'.code = Null \/ IsCodeOf(resp'.code.val, StoredContent')
          /\ StoredText(<<69, 114, 114, 111, 114, 32, 99, 111, 100, 101, 58, 32, 49, 50, 51>>)' => resp'.code = Null
          /\ (\A p \in 0..(Len(StoredContent') - 1) :
                 DigitRunAround(StoredContent', p) < 4) => resp'.code = Null
          /\ StoredText(<<67, 111, 100, 101, 58, 32, 49, 50, 51, 52, 53, 54, 55, 56>>)'
                => resp'.code = Val(<<49, 50, 51, 52, 53, 54, 55, 56>>)]_vars

\* One of the keywords of codePatterns occurs in s: the English ones in any
\* case, the Chinese ones as written.
KeywordOccurs(s) ==
    \E p \in 0..(Len(s) - 1) :
        \/ AltEnd(s, p, <<L_code, L_otp, L_pin, L_passcode, L_password,
                          L_verification, L_one_time>>, TRUE) >= 0
        \/ AltEnd(s, p, <<L_yanzhengma, L_jiaoyanma, L_dongtaima,
                          L_anquanma>>, FALSE) >= 0

\* s holds a run of 4 to 8 digits.
HasBareNumber(s) ==
    \E p \in 0..(Len(s) - 1) : IsDigit(At(s, p)) /\ DigitRunAround(s, p) \in 4..8

\* C8: a content in which no keyword occurs gives code null, whatever numbers
\* it holds.
C8_NoBareNumber ==
    (Returned /\ ~KeywordOccurs(StoredContent)) => resp.code = Null

\* C8's case: a content without a keyword that holds a number of 4 to 8
\* digits, and no code returned for it.
C8_Witness ==
    /\ Returned
    /\ ~KeywordOccurs(StoredContent)
    /\ HasBareNumber(StoredContent)
    /\ resp.code = Null

\* linkPatterns[k] matches in s starting at p, and p is not inside a match of
\* the pattern that starts further left: a match the scan arrives at.
LinkOccursAt(k, s, p) ==
    /\ LinkPatternAt(k, s, p).matched
    /\ \A q \in 0..(p - 1) :
          LinkPatternAt(k, s, q).matched => LinkPatternAt(k, s, q).end <= p

\* The URL of the match of linkPatterns[k] at p, trailing punctuation removed.
LinkUrlAt(k, s, p) ==
    CleanUrl(Substring(s, p, LinkPatternAt(k, s, p).end))

\* The first category, in list order, in which the URL u is matched in s.
LinkCategory(u, s) ==
    Min({k \in 1..NumLinkPatterns :
            \E p \in 0..(Len(s) - 1) : LinkOccursAt(k, s, p) /\ LinkUrlAt(k, s, p) = u})

\* Where the URL u appears first in s as a match of linkPatterns[k].
LinkFirstAt(k, u, s) ==
    Min({p \in 0..(Len(s) - 1) : LinkOccursAt(k, s, p) /\ LinkUrlAt(k, s, p) = u})

\* u stands before v in the order of C9: by category, then by appearance.
LinkBefore(u, v, s) ==
    LET ku == LinkCategory(u, s)
        kv == LinkCategory(v, s)
    IN  \/ ku < kv
        \/ ku = kv /\ LinkFirstAt(ku, u, s) < LinkFirstAt(kv, v, s)

\* C9: the links list never holds the same string twice, and it is ordered
\* by pattern category first, then by appearance in the content.
C9_LinksDistinctOrdered ==
    (Returned /\ resp.links # Null) =>
        LET links == resp.links.val
        IN  /\ \A i, j \in 1..Len(links) : i # j => links[i] # links[j]
            /\ \A i, j \in 1..Len(links) :
                  i < j => LinkBefore(links[i], links[j], StoredContent)

\* C9's case: a URL that is matched more than once (in two categories or at
\* two places) stands in the list, and two links stand in the list in the
\* inverse of their order in the content.
C9_Witness ==
    /\ Returned
    /\ resp.links # Null
    /\ LET links == resp.links.val
           s == StoredContent
           Hits(u) == {kp \in (1..NumLinkPatterns) \X (0..(Len(s) - 1)) :
                          LinkOccursAt(kp[1], s, kp[2]) /\ LinkUrlAt(kp[1], s, kp[2]) = u}
       IN  /\ \E i \in 1..Len(links) : Cardinality(Hits(links[i])) > 1
           /\ \E i, j \in 1..Len(links) :
                 /\ i < j
                 /\ LinkCategory(links[i], s) < LinkCategory(links[j], s)
                 /\ LinkFirstAt(LinkCategory(links[j], s), links[j], s)
                       < LinkFirstAt(LinkCategory(links[i], s), links[i], s)

\* Where the path of the URL u starts: the first '/', '?' or '#' after the
\* scheme, or the end of u if there is none.
PathStart(u) ==
    RunEnd(u, SchemeEnd(u, 0), CodeUnits \ {47, 63, 35})

\* A keyword of some category, or a token, code or key parameter, occurs in
\* the path or the query of the URL u.
MarkInPathOrQuery(u) ==
    \E k \in 1..NumLinkPatterns :
        \E t \in PathStart(u)..(Len(u) - 1) : LinkMarkAt(k, u, t)

\* C10: every link returned has a keyword, or a token, code or key parameter,
\* in its path or its query; 'Visit us: https://example.com/about' gives
\* links null.
C10_KeywordInPathOrQuery ==
    Returned =>
        /\ resp.links # Null =>
              \A i \in 1..Len(resp.links.val) : MarkInPathOrQuery(resp.links.val[i])
        /\ StoredText(<<86, 105, 115, 105, 116, 32, 117, 115, 58, 32, 104, 116, 116, 112, 115, 58, 47, 47, 101, 120, 97, 109, 112, 108, 101, 46, 99, 111, 109, 47, 97, 98, 111, 117, 116>>) => resp.links = Null

\* Some pattern of linkPatterns matches somewhere in s.
UrlMatches(s) ==
    \E k \in 1..NumLinkPatterns :
        \E p \in 0..(Len(s) - 1) : LinkPatternAt(k, s, p).matched

\* C11: links is null exactly when no pattern of linkPatterns matches in the
\* content, and a list of at least one URL otherwise, never an empty list;
\* an empty text without html gives code null and links null.
C11_LinksNullOrNonEmpty ==
    Returned =>
        /\ resp.links = Null <=> ~UrlMatches(StoredContent)
        /\ resp.links # Null => Len(resp.links.val) > 0
        /\ StoredText(<<>>) => resp.code = Null /\ resp.links = Null

\* C11's case: the content holds a URL, none of the patterns matches it, and
\* links is null.
C11_Witness ==
    /\ Returned
    /\ \E p \in 0..(Len(StoredContent) - 1) : SchemeEnd(StoredContent, p) >= 0
    /\ ~UrlMatches(StoredContent)
    /\ resp.links = Null

\* s begins with 'http://' or 'https://' as written, in lower case.
HasHttpPrefix(s) ==
    \/ LitAt(s, 0, L_http \o L_colon_slashes, FALSE)
    \/ LitAt(s, 0, L_http \o <<115>> \o L_colon_slashes, FALSE)

\* C12 as stated: every link returned begins with 'http://' or 'https://'.
C12_LowerCaseScheme ==
    (Returned /\ resp.links # Null) =>
        \A i \in 1..Len(resp.links.val) : HasHttpPrefix(resp.links.val[i])

\* C12, amended: every link returned begins with 'http://' or 'https://'
\* written in any letter case, so a mailto: address or any other URL that is
\* not HTTP(S) is never returned.
C12_HttpSchemeAnyCase ==
    (Returned /\ resp.links # Null) =>
        \A i \in 1..Len(resp.links.val) : SchemeEnd(resp.links.val[i], 0) >= 0

\* C12's case: the content holds a mailto: address with a keyword in it, and
\* a link was returned that is not that address.
C12_Witness ==
    /\ Returned
    /\ resp.links # Null
    /\ \E p \in 0..(Len(StoredContent) - 1) :
          LitAt(StoredContent, p, <<109, 97, 105, 108, 116, 111, 58, 118, 101, 114, 105, 102, 121>>, FALSE)   \* "mailto:verify"

-----------------------------------------------------------------------------
(* Properties of the MIME parser, on the messages handleEmail stores.       *)

\* The stored message is a multipart one: its raw text has a boundary
\* parameter.
StoredMultipart == stored # NoEmail /\ BoundaryMatch(inbound.raw) # Null

\* The pieces of the multipart message raw between its delimiters.
Segments(raw) == Split(raw, L_dashes \o BoundaryMatch(raw).val)

\* The piece part is a segment of the content type value: it is not blank,
\* its headers declare the type, and a CRLF CRLF ends its headers.
IsSegmentOf(part, value) ==
    /\ Trim(part) \notin {<<>>, L_dashes}
    /\ HeaderTest(part, L_content_type, value)
    /\ IndexOf(part, CRLFCRLF) >= 0

\* The positions in parts of the segments of the content type value.
SegmentsOf(parts, value) ==
    {i \in 1..Len(parts) : IsSegmentOf(parts[i], value)}

\* The decoded content of a segment: what follows its CRLF CRLF, trimmed,
\* decoded by its transfer encoding.
SegmentContent(part) ==
    DecodeTransfer(part, Trim(SubstringFrom(part, IndexOf(part, CRLFCRLF) + 4)))

\* C13: for a multipart message, text is the decoded content of the first
\* text/plain segment and html is the decoded content of the last text/html
\* segment.
C13_FirstPlainLastHtml ==
    StoredMultipart =>
        LET FirstLast(parts, plain, htmls) ==
                /\ plain # {} => stored.text = SegmentContent(parts[Min(plain)])
                /\ htmls # {} =>
                      stored.html = Val(SegmentContent(parts[Max(htmls)]))
            Of(parts) ==
                FirstLast(parts, SegmentsOf(parts, L_text_plain),
                          SegmentsOf(parts, L_text_html))
        IN  Of(Segments(inbound.raw))

\* C14: for a multipart message, text is htmlToText(html) when no text/plain
\* segment was found and a text/html segment was; when a text/plain segment
\* was found, text is the content of a text/plain segment and not derived
\* from the HTML; html is present only if a text/html segment was found.
C14_TextFromHtmlIffNoPlain ==
    StoredMultipart =>
        LET Derived(parts, plain, htmls) ==
                /\ (plain = {} /\ htmls # {}) =>
                      /\ stored.html # Undefined
                      /\ stored.text = htmlToText(stored.html.val)
                /\ plain # {} =>
                      \E i \in plain : stored.text = SegmentContent(parts[i])
                /\ (plain = {} /\ htmls = {}) => stored.text = <<>>
                /\ stored.html # Undefined => htmls # {}
            Of(parts) ==
                Derived(parts, SegmentsOf(parts, L_text_plain),
                        SegmentsOf(parts, L_text_html))
        IN  Of(Segments(inbound.raw))

\* The piece part declares the content type value but no CRLF CRLF ends its
\* headers.
IsUnseparatedOf(part, value) ==
    /\ Trim(part) \notin {<<>>, L_dashes}
    /\ HeaderTest(part, L_content_type, value)
    /\ IndexOf(part, CRLFCRLF) < 0

\* The body parseMimeContent makes of the full text full, whose headers are
\* read in it as well: decoded by the transfer encoding, and converted to
\* text when it is HTML.
FullTextBody(full) ==
    IF HeaderTest(full, L_content_type, L_text_html)
    THEN [text |-> htmlToText(DecodeTransfer(full, full)),
          html |-> Val(DecodeTransfer(full, full))]
    ELSE [text |-> DecodeTransfer(full, full), html |-> Undefined]

\* The single-part half of C15: a message without boundary parameter and
\* without CRLF CRLF is stored with its full raw text as the body.
SinglePartKeepsFullText ==
    (/\ stored # NoEmail
     /\ BoundaryMatch(inbound.raw) = Null
     /\ IndexOf(inbound.raw, CRLFCRLF) < 0)
        => [text |-> stored.text, html |-> stored.html] = FullTextBody(inbound.raw)

\* The multipart half of C15: when the only text/plain or text/html piece of
\* a multipart message lacks the CRLF CRLF, the full text of that piece is
\* the body.
MultipartKeepsFullText ==
    StoredMultipart =>
        LET Kept(parts, typed, bare) ==
                (typed = bare /\ Cardinality(bare) = 1) =>
                    \A i \in bare :
                        [text |-> stored.text, html |-> stored.html]
                            = FullTextBody(Trim(parts[i]))
            Of(parts) ==
                Kept(parts,
                     {i \in 1..Len(parts) :
                         \/ HeaderTest(parts[i], L_content_type, L_text_plain)
                         \/ HeaderTest(parts[i], L_content_type, L_text_html)},
                     {i \in 1..Len(parts) :
                         \/ IsUnseparatedOf(parts[i], L_text_plain)
                         \/ IsUnseparatedOf(parts[i], L_text_html)})
        IN  Of(Segments(inbound.raw))

\* C15: when the CRLF CRLF is missing, the full raw text is the body, on the
\* single-part path and on the multipart path.
C15_MissingSeparatorKeepsText ==
    SinglePartKeepsFullText /\ MultipartKeepsFullText

\* s is a string: a sequence of code units.
IsString(s) == s \in Seq(CodeUnits)

\* v is a string, null or undefined.
IsStringOrNone(v) == v \in {Null, Undefined} \/ IsString(v.val)

\* The body of the single-part message raw: what follows the first CRLF CRLF
\* that is not at the very start, or all of raw.
SinglePartBody(raw) ==
    LET Body(bodyStart) ==
            IF bodyStart > 0 THEN SubstringFrom(raw, bodyStart + 4) ELSE raw
    IN  Body(IndexOf(raw, CRLFCRLF))

\* The headers in s declare base64 and not quoted-printable, which is
\* looked for first.
DeclaredBase64(s) ==
    /\ HeaderTest(s, L_cte, L_base64)
    /\ ~HeaderTest(s, L_cte, L_quoted_printable)

\* The body cannot be decoded: atob throws on it.
Undecodable(body) == atob(StripSpace(body)) = Null

\* What follows the CRLF CRLF of a segment, trimmed and not decoded.
SegmentText(part) == Trim(SubstringFrom(part, IndexOf(part, CRLFCRLF) + 4))

\* The stored message is a single-part one declared base64 whose body cannot
\* be decoded.
StoredUndecodable ==
    /\ stored # NoEmail
    /\ BoundaryMatch(inbound.raw) = Null
    /\ DeclaredBase64(inbound.raw)
    /\ Undecodable(SinglePartBody(inbound.raw))

\* C16: parseEmailAddress, parseMimeContent, the subject extraction and
\* extractData give a value for every input (strings, with null or undefined
\* only where the result type has them), and a body declared base64 that
\* cannot be decoded is returned as the original text.
C16_AlwaysAValue ==
    /\ stored # NoEmail =>
          /\ IsString(stored.from)
          /\ IsStringOrNone(stored.fromName)
          /\ IsString(stored.subject)
          /\ IsString(stored.text)
          /\ IsStringOrNone(stored.html)
    /\ Returned =>
          /\ IsStringOrNone(resp.code)
          /\ resp.links = Null
                \/ \A i \in 1..Len(resp.links.val) : IsString(resp.links.val[i])
    /\ StoredUndecodable =>
          IF stored.html = Undefined
          THEN stored.text = SinglePartBody(inbound.raw)
          ELSE stored.html = Val(SinglePartBody(inbound.raw))
    /\ StoredMultipart =>
          LET Kept(parts, plain) ==
                  \A i \in plain :
                      (/\ i = Min(plain)
                       /\ DeclaredBase64(parts[i])
                       /\ Undecodable(SegmentText(parts[i])))
                          => stored.text = SegmentText(parts[i])
              Of(parts) == Kept(parts, SegmentsOf(parts, L_text_plain))
          IN  Of(Segments(inbound.raw))

\* An undecodable base64 message was stored with its encoded text and read.
C16_Witness ==
    /\ StoredUndecodable
    /\ stored.text = SinglePartBody(inbound.raw)
    /\ Len(stored.text) > 0
    /\ Returned

-----------------------------------------------------------------------------
(* Properties of the subject.                                              *)

\* The header section of raw: what precedes the first CRLF CRLF, or all of
\* raw when there is none.
HeaderSection(raw) ==
    LET Upto(i) == IF i < 0 THEN raw ELSE Substring(raw, 0, i)
    IN  Upto(IndexOf(raw, CRLFCRLF))

\* The positions in h where a Subject header line starts.
SubjectLines(h) ==
    {p \in 0..(Len(h) - 1) :
        /\ p = 0 \/ At(h, p - 1) \in LineTerminators
        /\ LitAt(h, p, L_subject, TRUE)}

\* The rest of the line of h after the header name that starts at p.
RestOfLine(h, p) ==
    Substring(h, p + Len(L_subject),
              RunEnd(h, p + Len(L_subject), CodeUnits \ LineTerminators))

\* The subjects the header section h allows: the trimmed remainder of its
\* first Subject header line, or '(no subject)' when it has no such line or
\* the remainder is blank.
HeaderSubjects(h) ==
    IF SubjectLines(h) = {} THEN {L_no_subject}
    ELSE IF Trim(RestOfLine(h, Min(SubjectLines(h)))) = <<>>
    THEN {<<>>, L_no_subject}
    ELSE {Trim(RestOfLine(h, Min(SubjectLines(h))))}

\* C17: the stored subject is '(no subject)' when the header section has no
\* Subject header line, and otherwise the trimmed remainder of that line;
\* text of the body or of another header is never the subject.
C17_SubjectFromHeaderLine ==
    stored # NoEmail =>
        stored.subject \in HeaderSubjects(HeaderSection(inbound.raw))

-----------------------------------------------------------------------------
(* Properties of the quoted-printable decoder.                             *)

\* s without its soft line breaks: each '=' directly followed by CRLF or by
\* LF, read from the left.
RECURSIVE WithoutSoftBreaks(_)
WithoutSoftBreaks(s) ==
    IF s = <<>> THEN <<>>
    ELSE IF Len(s) >= 3 /\ s[1] = 61 /\ s[2] = 13 /\ s[3] = 10
    THEN WithoutSoftBreaks(SubSeq(s, 4, Len(s)))
    ELSE IF Len(s) >= 2 /\ s[1] = 61 /\ s[2] = 10
    THEN WithoutSoftBreaks(SubSeq(s, 3, Len(s)))
    ELSE <<s[1]>> \o WithoutSoftBreaks(Tail(s))

\* s with each '=XX', read from the left, replaced by the character of code
\* 0xXX.
RECURSIVE WithHexDecoded(_)
WithHexDecoded(s) ==
    IF s = <<>> THEN <<>>
    ELSE IF Len(s) >= 3 /\ s[1] = 61 /\ IsHexDigit(s[2]) /\ IsHexDigit(s[3])
    THEN <<16 * HexValue(s[2]) + HexValue(s[3])>>
             \o WithHexDecoded(SubSeq(s, 4, Len(s)))
    ELSE <<s[1]>> \o WithHexDecoded(Tail(s))

\* The stored message is a single-part quoted-printable one with the body b.
StoredQp(b) == stored # NoEmail /\ inbound.raw = QpMessage(b)

\* C18: the text of a quoted-printable body is the body with the soft line
\* breaks removed first and each '=XX' replaced after that; a body without
\* '=' is unchanged; 'Hello=20World' gives 'Hello World', 'Hello=\r\nWorld'
\* gives 'HelloWorld' and '1+1=3D2' gives '1+1=2'.
C18_SoftBreaksThenHex ==
    /\ \A b \in QpBodies :
          StoredQp(b) =>
              /\ stored.text = WithHexDecoded(WithoutSoftBreaks(b))
              /\ (\A i \in 1..Len(b) : b[i] # 61) => stored.text = b
    /\ StoredQp(<<72, 101, 108, 108, 111, 61, 50, 48, 87, 111, 114, 108, 100>>)   \* "Hello=20World"
          => stored.text = <<72, 101, 108, 108, 111, 32, 87, 111, 114, 108, 100>>   \* "Hello World"
    /\ StoredQp(<<72, 101, 108, 108, 111, 61, 13, 10, 87, 111, 114, 108, 100>>)   \* "Hello=\r\nWorld"
          => stored.text = <<72, 101, 108, 108, 111, 87, 111, 114, 108, 100>>   \* "HelloWorld"
    /\ StoredQp(<<49, 43, 49, 61, 51, 68, 50>>)   \* "1+1=3D2"
          => stored.text = <<49, 43, 49, 61, 50>>   \* "1+1=2"

\* A body whose '=XX' only appears once a soft line break is removed was
\* stored decoded: 'A==\n41' as 'AA'.
C18_Witness ==
    /\ StoredQp(<<65, 61, 61, 10, 52, 49>>)   \* "A==\n41"
    /\ stored.text = <<65, 65>>   \* "AA"

-----------------------------------------------------------------------------
(* Properties of the size limit.                                           *)

\* C19: a raw email longer than 1,048,576 characters is dropped before it is
\* parsed, so nothing of it is stored, and no stored email has a size above
\* 1,048,576.
C19_SizeLimitBeforeParse ==
    /\ (inbound # NoMessage /\ inbound.size > MaxEmailSize)
          => stored = NoEmail /\ emails = <<>> /\ Quiet
    /\ stored # NoEmail =>
          /\ stored.size = inbound.size
          /\ stored.size <= MaxEmailSize
    /\ \A id \in DOMAIN emails : emails[id].size <= MaxEmailSize

\* A message one character over the limit was delivered and dropped.
C19_Witness ==
    /\ inbound # NoMessage
    /\ inbound.size = MaxEmailSize + 1
    /\ stored = NoEmail
    /\ emails = <<>>
    /\ history.arrived = 1

-----------------------------------------------------------------------------
(* Properties of the retention.                                            *)

\* The retention time has elapsed since the email id was stored, that is,
\* since the first write of store.storeEmail took effect.
RetentionElapsed(id) == now - history.stored[id] >= RetentionMs

\* The ids of the emails that the store gives to a GET /inbox of the mailbox
\* name that it serves now, alone: the ids of the list of the KV store for
\* which an email is returned, and the rows of D1 that have not expired.
Listed(name) ==
    IF backend = "kv"
    THEN {ListOf(name)[k] : k \in {i \in 1..Len(ListOf(name)) :
                                      getEmail(ListOf(name)[i], now) # Null}}
    ELSE RowsOf(name, now)

\* The store gives the email id neither to GET /emails/{id} nor to GET
\* /inbox.
Gone(id) ==
    /\ getEmail(id, now) = Null
    /\ \A name \in DOMAIN mailboxes : id \notin Listed(name)

\* C20: once EMAIL_RETENTION_MS has elapsed since an email was stored, the
\* store no longer gives it to GET /emails/{id} nor to GET /inbox, with
\* either backend and whatever was done with the email in between.
C20_GoneAfterRetention ==
    \A id \in DOMAIN emails : RetentionElapsed(id) => Gone(id)

\* The same for the D1 store only.
D1GoneAfterRetention ==
    backend = "d1" => C20_GoneAfterRetention

-----------------------------------------------------------------------------
(* Properties of the service.                                              *)

\* The mailboxes created for requests without the test token in the hour
\* that starts at t.
CreatedInWindow(t) ==
    {c \in history.created :
        ~c.bypass /\ c.at >= t /\ c.at < t + RegisterWindowMs}

\* C21: for one client address and requests without the test token, at most
\* 60 POST /mailboxes requests create a mailbox within any one hour, also
\* when the requests are served at the same time.
C21_AtMostSixtyPerHour ==
    \A c \in history.created :
        Cardinality(CreatedInWindow(c.at)) <= RegisterLimit

\* C22: no two successful POST /mailboxes answers carry the same address,
\* also when the requests are served at the same time.
C22_AddressesDiffer ==
    \A c, d \in history.created : c.email = d.email => c = d

\* With the D1 store no two 201 answers carry the same address: the second
\* INSERT of a name fails.
D1AddressesDiffer ==
    backend = "d1" => C22_AddressesDiffer

\* C23: once DELETE /emails/{id} has been answered 204, the store returns the
\* email to no later GET /emails/{id} (404) and no GET /inbox lists it, also
\* when a GET /emails/{id} was being served while the email was deleted.
C23_DeletedStaysGone ==
    \A id \in history.deleted : Gone(id)

\* With the D1 store a deleted email stays gone.
D1DeletedStaysGone ==
    backend = "d1" => C23_DeletedStaysGone

\* The emails of the mailbox of the email id that the store returns, that
\* were not deleted, and that are newer than it.
NewerThan(id) ==
    {j \in DOMAIN emails \ history.deleted :
        /\ emails[j].mailboxName = emails[id].mailboxName
        /\ getEmail(j, now) # Null
        /\ \/ emails[j].receivedAt > emails[id].receivedAt
           \/ emails[j].receivedAt = emails[id].receivedAt /\ j > id}

\* The ids of the list of the KV store for the mailbox name for which an
\* email is returned, in the order of the list: the order of GET /inbox.
ListedInOrder(name) ==
    LET Got(id) == getEmail(id, now) # Null
    IN  SelectSeq(ListOf(name), Got)

\* Newest first: no email of ids is older than the one after it.
NewestFirst(ids) ==
    \A k \in 1..(Len(ids) - 1) :
        emails[ids[k]].receivedAt >= emails[ids[k + 1]].receivedAt

\* store.storeEmail has not returned for the email id.
Storing(id) ==
    \E p \in Procs :
        \/ procs[p].pc = "storeEmail" /\ procs[p].email.id = id
        \/ procs[p].pc \in {"listGet", "list", "mailbox", "activity"}
              /\ procs[p].id = id

\* C27: with the KV store, every email that is stored, not deleted and not
\* expired, and is among the 100 newest of its mailbox, is listed by GET
\* /inbox, newest first, once storeEmail has returned for it, also when
\* deliveries, or a delivery and a GET /inbox, were served at the same time.
C27_StoredIsListed ==
    backend = "kv" =>
        /\ \A id \in DOMAIN emails \ history.deleted :
              (/\ getEmail(id, now) # Null
               /\ Cardinality(NewerThan(id)) < MaxListed
               /\ ~Storing(id))
                  => id \in Listed(emails[id].mailboxName)
        /\ \A name \in DOMAIN mailboxes :
              (\A id \in DOMAIN emails : ~Storing(id))
                  => NewestFirst(ListedInOrder(name))

\* The step is one of the request of slot p, which authenticate has accepted
\* for the mailbox name, and which asks for the email id.
StepFor(p, name, id) ==
    /\ procs'[p] # procs[p]
    /\ procs[p].pc \in {"getEmail", "marking", "mark", "delete", "key",
                        "unlisting", "unlist"}
    /\ procs[p].name = name
    /\ procs[p].id = id

\* C26: a request that is authenticated for one mailbox never reads, marks
\* read or deletes an email of another: GET and DELETE /emails/{id} for such
\* an id are answered 404 and leave the emails and the lists as they are,
\* and an email is removed or marked read only by a step of a request of its
\* mailbox.
C26_MailboxIsolation ==
    [][/\ \A p \in Procs, id \in DOMAIN emails :
             (/\ StepFor(p, procs[p].name, id)
              /\ procs[p].name # emails[id].mailboxName)
                 => /\ procs[p].pc \in {"getEmail", "delete"}
                    /\ procs'[p] = Idle
                    /\ resp' = NotFound
                    /\ emails' = emails /\ lists' = lists
       /\ \A id \in DOMAIN emails :
             (id \notin DOMAIN emails' \/ emails'[id].read # emails[id].read)
                 => \E p \in Procs : StepFor(p, emails[id].mailboxName, id)]_vars

\* The owner of one mailbox has asked for an email of the other that the
\* store held, was answered 404, and the email is there.
C26_Witness ==
    /\ request # NoRequest
    /\ request.route = "email"
    /\ request.held
    /\ request.id \in DOMAIN emails
    /\ request.owner \notin {Null, Val(emails[request.id].mailboxName)}
    /\ resp = NotFound
    /\ Quiet

\* The header begins with "Bearer " and the hash of the rest is the token
\* hash of an existing mailbox.
IsBearerOfMailbox(auth) ==
    /\ auth # Null
    /\ LitAt(auth.val, 0, L_bearer, FALSE)
    /\ \E name \in DOMAIN mailboxes :
          mailboxes[name].tokenHash
              = hashToken(SubstringFrom(auth.val, Len(L_bearer)))

\* The step has taken a request of the method, route and header of req.
Asked(req) ==
    /\ request' # NoRequest
    /\ request'.method = req.method
    /\ request'.route = req.route
    /\ request'.auth = req.auth

\* The step leaves the store as it is.
StoreUnchanged == UNCHANGED <<mailboxes, tokens, emails, lists, rate>>

\* The step answers the request of slot p.
Answers(p) == procs[p] # Idle /\ procs'[p] = Idle

\* The request of slot p is answered 401 by the step, without a write to
\* the store.
Rejected(p) ==
    /\ procs'[p] = Idle
    /\ resp' = [status |-> 401]
    /\ StoreUnchanged

\* C24 as stated: every request to /inbox, /emails/{id}, /stats or a path of
\* no endpoint is answered 401 without a write to the store unless its
\* Authorization header is "Bearer " and the token of a mailbox.
C24_UnauthorizedIs401 ==
    [][\A p \in Procs, req \in AllRequests :
          (Asked(req) /\ ApiRequest(p, req)
                        /\ ~IsBearerOfMailbox(req.auth))
              => Rejected(p)]_vars

\* C24, amended: every request other than an OPTIONS request to /inbox,
\* /emails/{id}, /stats or a path of no endpoint is answered 401 without a
\* write to the store unless its Authorization header is "Bearer " and the
\* token of a mailbox; a missing header, another scheme (Basic, bearer, no
\* prefix) and an empty token are rejected.
C24_UnauthorizedIs401ButOptions ==
    [][\A p \in Procs, req \in AllRequests :
          (Asked(req) /\ ApiRequest(p, req)
                        /\ req.method # "OPTIONS"
                        /\ ~IsBearerOfMailbox(req.auth))
              => Rejected(p)]_vars

\* A GET or DELETE that authenticate did not accept has been answered 401
\* while the store holds an email.
C24_Witness ==
    /\ request # NoRequest
    /\ request.method # "OPTIONS"
    /\ request.owner = Null
    /\ resp = [status |-> 401]
    /\ emails # <<>>

\* The token that POST /mailboxes answered with c opens the mailbox of c.
Authenticates(c) ==
    /\ OwnerOf(Val(L_bearer \o c.token)) # Null
    /\ OwnerOf(Val(L_bearer \o c.token)).email = c.email

\* The step removes a mailbox.
MailboxRemoved == \E name \in DOMAIN mailboxes : name \notin DOMAIN mailboxes'

\* The emails that the step removes from the store.
EmailsRemoved == DOMAIN emails \ DOMAIN emails'

\* C25: no operation removes a mailbox, the token of every successful
\* POST /mailboxes authenticates its mailbox in every later state, and the
\* scheduled cleanup deletes only emails whose expiry time has passed.
C25_MailboxesNeverExpire ==
    /\ [](\A c \in history.created : Authenticates(c))
    /\ [][~MailboxRemoved]_vars
    /\ [][\A p \in Procs :
             Cleanup(p) => /\ \A id \in EmailsRemoved :
                                 emails[id].expiresAt <= now
                           /\ \A id \in DOMAIN emails' :
                                 emails[id].expiresAt > procs[p].at
                           /\ mailboxes' = mailboxes]_vars

\* The scheduled cleanup has removed every email of the store, long after
\* the last mailbox was created, and the tokens still open their mailboxes.
C25_Witness ==
    /\ backend = "d1"
    /\ history.posts = MaxMailboxes
    /\ Cardinality(history.created) = MaxMailboxes
    /\ history.arrived > 0
    /\ history.deleted = {}
    /\ emails = <<>>
    /\ now >= RetentionMs
    /\ Quiet
    /\ \A c \in history.created : Authenticates(c)

\* The message is for the staging domain and a staging worker is bound.
ForStaging(msg) == staging /\ DomainOf(ToLowerCase(msg.to)) = Val(StagingDomain)

\* The local part of the recipient of the message names no mailbox.
ForNoMailbox(msg) ==
    getMailboxByName(getLocalPart(ToLowerCase(msg.to))) = Null

\* The step writes nothing to the store, at once or later.
NothingStored == StoreUnchanged /\ procs' = procs

\* C30: an inbound email whose recipient names no mailbox is dropped
\* without a write to the store, an email to the staging domain of a worker
\* with a staging worker is forwarded and not stored, whether the forwarding
\* succeeds or not, and every stored email has the mailboxName of a mailbox.
C30_UnknownDroppedStagingForwarded ==
    /\ [](\A id \in DOMAIN emails : emails[id].mailboxName \in DOMAIN mailboxes)
    /\ [][\A p \in Procs, msg \in OwnedArrivals \cup ForeignArrivals \cup OtherArrivals :
             /\ (HandleEmail(p, msg) /\ ForStaging(msg))
                    => /\ NothingStored
                       /\ \E f \in history'.forwarded : f.to = msg.to
             /\ (HandleEmail(p, msg) /\ ~ForStaging(msg) /\ ForNoMailbox(msg))
                    => NothingStored /\ history'.forwarded = history.forwarded
             /\ (HandleInternalEmail(p, msg) /\ ForNoMailbox(msg))
                    => NothingStored /\ history'.forwarded = history.forwarded
         ]_vars

\* Two emails have arrived, one for the staging domain whose forwarding
\* failed and one for a mailbox that does not exist, and the store holds no
\* email.
C30_Witness ==
    /\ staging
    /\ history.arrived = 2
    /\ \E f \in history.forwarded : ~f.ok
    /\ Cardinality(history.forwarded) = 1
    /\ emails = <<>>
    /\ Quiet

\* The unexpired unread emails that the store holds for the mailbox.
UnreadOf(name) ==
    {id \in DOMAIN emails : /\ emails[id].mailboxName = name
                            /\ getEmail(id, now) # Null
                            /\ ~emails[id].read}

\* The answer of the step counts the unread emails of the mailbox, unless
\* the delivery of an email is under way.
CountsUnread(name) ==
    /\ resp'.unread <= resp'.totalCount
    /\ (\A id \in DOMAIN emails : ~Storing(id))
          => resp'.unread = Cardinality(UnreadOf(name))

\* No email of the store changes its read flag in the step.
ReadFlagsKept ==
    /\ DOMAIN emails' = DOMAIN emails
    /\ \A id \in DOMAIN emails : emails'[id].read = emails[id].read

\* The store returns the email id after the step.
Kept(id) ==
    /\ id \in DOMAIN emails'
    /\ backend = "kv" => emails'[id].expiresAt > now

\* C28: an email is stored unread, is read once GET /emails/{id} of its
\* mailbox has answered 200, and is never unread again; GET /inbox and
\* GET /stats change no read flag, and the unread count of their answer is
\* the number of unexpired unread emails of the mailbox (of those whose
\* delivery is complete), at most the total.
C28_ReadFlagMonotonic ==
    /\ [][\A id \in DOMAIN emails \cap DOMAIN emails' :
             emails[id].read => emails'[id].read]_vars
    /\ [][\A id \in DOMAIN emails' \ DOMAIN emails : ~emails'[id].read]_vars
    /\ [][\A p \in Procs :
             (/\ procs[p].pc \in {"marking", "mark"}
              /\ Answers(p)
              /\ resp'.status = 200
              /\ Kept(procs[p].id))
                 => emails'[procs[p].id].read]_vars
    /\ [][\A p \in Procs :
             (/\ procs[p].pc \in {"inboxList", "scan", "prune", "select",
                                  "stats"}
              /\ procs'[p] # procs[p])
                 => /\ ReadFlagsKept
                    /\ (Answers(p) /\ resp'.status = 200)
                          => CountsUnread(procs[p].name)]_vars

\* C29: GET /inbox returns at most 100 summaries for every value of limit
\* and offset, and at most limit summaries when limit is between 1 and 100.
C29_AtMostHundredSummaries ==
    "data" \in DOMAIN resp
        => /\ Len(resp.data) <= LimitCap
           /\ (resp.limit # NaN /\ resp.limit.val \in 1..LimitCap)
                 => Len(resp.data) <= resp.limit.val

\* With the KV store the inbox never carries more than 100 summaries.
KVAtMostHundredSummaries == backend = "kv" => C29_AtMostHundredSummaries

====
